---- MODULE Spec2Model ----
(***************************************************************************)
(* Relationship discovery engine of the API catalog                        *)
(* (app/utils/relationship_analyzer.py) together with the store it reads   *)
(* and writes (app/cache.py, app/routers/endpoints.py,                     *)
(* app/routers/relationships.py).                                          *)
(*                                                                         *)
(* RelationshipAnalyzer is written against the SQLAlchemy Session          *)
(* interface (db.query, db.delete, db.add, db.commit); these calls have    *)
(* their Session meaning here: rows added or deleted become visible in the *)
(* table at db.commit() and are lost if the process stops before it.       *)
(* Services and endpoints are created, changed and deleted as              *)
(* InMemoryCache and the endpoints router do it.                           *)
(*                                                                         *)
(* JSON values are tagged records, one field name per kind, so that values *)
(* of different kinds can sit in one set:                                  *)
(*   null  [k |-> "null"]                                                  *)
(*   str   [k |-> "str",  s |-> "..."]                                     *)
(*   list  [k |-> "list", l |-> << ... >>]                                 *)
(*   dict  [k |-> "dict", d |-> [key |-> value, ...]]                      *)
(* A Python call that may raise returns [exc |-> BOOLEAN, val |-> result]. *)
(* Scores are exact fractions <<n, d>> in lowest terms; a float quotient   *)
(* of two small integers compares with 0, 0.3, 0.7 and with another such   *)
(* quotient exactly as the fractions do.                                   *)
(* URL paths are sequences of one-character strings.                       *)
(***************************************************************************)
EXTENDS Integers, Sequences, FiniteSets, TLC

VARIABLES
    services,       \* InMemoryCache.services: set of service ids
    service_counter,
    endpoints,      \* endpoint table: id -> endpoint record
    endpoint_counter,
    relationships,  \* committed rows of the relationships table
    pc,             \* position of the running analyze_all_relationships
    scanned,        \* its local `endpoints` list
    pi, pj,         \* its loop indices i, j
    pending,        \* rows added to the session and not yet committed
    results,        \* its local `results` dict, kept until the next request
    before_run,     \* history: rows and summary as they were when it started
    response,       \* HTTP status of the last finished request, 0 for none
    call,           \* the last read-only call or view: [fn, arguments, out]
    data_models,    \* data model rows: id -> [name, service_id, taxonomy_id]
    data_model_counter,
    taxonomies      \* taxonomy rows: id -> [name, parent_id, level, path]

vars == <<services, service_counter, endpoints, endpoint_counter,
          relationships, pc, scanned, pi, pj, pending, results, before_run,
          response, call, data_models, data_model_counter, taxonomies>>

storeVars == <<services, service_counter, endpoints, endpoint_counter,
               relationships, pc, scanned, pi, pj, pending, results, before_run,
               response, data_models, data_model_counter, taxonomies>>

catalogVars == <<data_models, data_model_counter, taxonomies>>

-----------------------------------------------------------------------------
(* JSON values                                                             *)

JNull == [k |-> "null"]
JStr(s) == [k |-> "str", s |-> s]
JList(l) == [k |-> "list", l |-> l]
JDict(d) == [k |-> "dict", d |-> d]
EmptyDict == JDict(<<>>)

IsDict(j) == j.k = "dict"
IsList(j) == j.k = "list"
IsStr(j) == j.k = "str"

\* Python truthiness of a JSON value (`if endpoint.request_schema:`)
Truthy(j) ==
    CASE j.k = "null" -> FALSE
      [] j.k = "str"  -> j.s # ""
      [] j.k = "list" -> j.l # <<>>
      [] j.k = "dict" -> DOMAIN j.d # {}

\* Python `key in x` for a JSON value x.  The strings of the model are
\* atoms, and none of them properly contains a key name, so the substring
\* test on a str is equality.
HasKey(j, key) ==
    CASE j.k = "dict" -> key \in DOMAIN j.d
      [] j.k = "list" -> \E n \in 1..Len(j.l) : j.l[n] = JStr(key)
      [] j.k = "str"  -> j.s = key
      [] OTHER        -> FALSE

Ok(v) == [exc |-> FALSE, val |-> v]
Raise(v) == [exc |-> TRUE, val |-> v]

-----------------------------------------------------------------------------
(* Local variables and exact fractions                                     *)

\* a local variable of a method: v is computed once, Op reads it by name
With(v, Op(_)) == CHOOSE r \in {Op(x) : x \in {v}} : TRUE

RECURSIVE Gcd(_, _)
Gcd(a, b) ==
    With(a, LAMBDA x :
    With(b, LAMBDA y :
        IF y = 0 THEN x ELSE Gcd(y, x % y)))

Frac(n, d) ==
    IF n = 0 THEN <<0, 1>>
    ELSE With(Gcd(n, d), LAMBDA g : <<n \div g, d \div g>>)
Zero == <<0, 1>>
One == <<1, 1>>
FLt(a, b) == a[1] * b[2] < b[1] * a[2]
FLe(a, b) == a[1] * b[2] <= b[1] * a[2]
FGe(a, b) == FLe(b, a)
FGt(a, b) == FLt(b, a)

-----------------------------------------------------------------------------
(* Schema field extractor                                                  *)

\* a plausible slip: the dot is written also after an empty prefix
FieldNameAlwaysDotted(prefix, prop_name) == prefix \o "." \o prop_name

\* f"{prefix}.{prop_name}" if prefix else prop_name
FieldName(prefix, prop_name) ==
    IF prefix # "" THEN prefix \o "." \o prop_name ELSE prop_name

\* schema["properties"].items(): an AttributeError unless it is a dict
PropertyItems(j) == IF IsDict(j) THEN Ok(j.d) ELSE Raise(<<>>)

\* d[key] when it is a list, for the allOf/oneOf/anyOf loop
Members(d, key) == IF key \in DOMAIN d /\ IsList(d[key]) THEN d[key].l ELSE <<>>

RECURSIVE _extract_fields_from_schema(_, _)
_extract_fields_from_schema(schema, prefix) ==
    IF ~IsDict(schema) THEN Ok({})
    ELSE
    With(schema.d, LAMBDA d :
    With(IF "properties" \in DOMAIN d
           THEN PropertyItems(d["properties"]) ELSE Ok(<<>>), LAMBDA items :
    With([n \in DOMAIN items.val |->
            IF IsDict(items.val[n])
              THEN _extract_fields_from_schema(items.val[n], FieldName(prefix, n))
              ELSE Ok({})], LAMBDA nested :
    With(IF "items" \in DOMAIN d /\ IsDict(d["items"])
           THEN _extract_fields_from_schema(d["items"], prefix \o "[]")
           ELSE Ok({}), LAMBDA arr :
    With([key \in {"allOf", "oneOf", "anyOf"} |->
            [n \in 1..Len(Members(d, key)) |->
               IF IsDict(Members(d, key)[n])
                 THEN _extract_fields_from_schema(Members(d, key)[n], prefix)
                 ELSE Ok({})]], LAMBDA comb :
        IF \/ items.exc
           \/ \E n \in DOMAIN nested : nested[n].exc
           \/ arr.exc
           \/ \E key \in DOMAIN comb : \E n \in DOMAIN comb[key] : comb[key][n].exc
          THEN Raise({})
          ELSE Ok({FieldName(prefix, n) : n \in DOMAIN nested}
                     \cup UNION {nested[n].val : n \in DOMAIN nested}
                     \cup arr.val
                     \cup UNION {UNION {comb[key][n].val : n \in DOMAIN comb[key]} :
                                    key \in DOMAIN comb}))))))

\* The name of a parameter whose "name" is null (Python adds None to the set)
NoneName == "<None>"

\* fields contributed by one value of endpoint.parameters (lines 185-187)
ParamListFields(param_list) ==
    CASE param_list.k = "null" -> Raise({})          \* not iterable
      [] param_list.k = "str"  -> Ok({})             \* characters, no dict
      [] param_list.k = "dict" -> Ok({})             \* keys, no dict
      [] param_list.k = "list" ->
           LET l == param_list.l
               named == {n \in 1..Len(l) : IsDict(l[n]) /\ "name" \in DOMAIN l[n].d}
               nm(n) == l[n].d["name"]
           IN  IF \E n \in named : nm(n).k \in {"list", "dict"}   \* unhashable
                 THEN Raise({})
                 ELSE Ok({IF nm(n).k = "null" THEN NoneName ELSE nm(n).s : n \in named})

\* the `if endpoint.parameters:` block of lines 184-187
ParameterFields(ps) ==
    IF ~Truthy(ps) THEN Ok({})
    ELSE IF ~IsDict(ps) THEN Raise({})    \* no .items()
    ELSE With([loc \in DOMAIN ps.d |-> ParamListFields(ps.d[loc])], LAMBDA each :
            IF \E loc \in DOMAIN each : each[loc].exc THEN Raise({})
            ELSE Ok(UNION {each[loc].val : loc \in DOMAIN each}))

_extract_fields_from_endpoint(endpoint) ==
    With(IF Truthy(endpoint.request_schema)
           THEN _extract_fields_from_schema(endpoint.request_schema, "")
           ELSE Ok({}), LAMBDA req :
    With(IF Truthy(endpoint.response_schema)
           THEN _extract_fields_from_schema(endpoint.response_schema, "")
           ELSE Ok({}), LAMBDA resp :
    With(ParameterFields(endpoint.parameters), LAMBDA par :
        IF req.exc \/ resp.exc \/ par.exc THEN Raise({})
        ELSE Ok(req.val \cup resp.val \cup par.val))))

-----------------------------------------------------------------------------
(* Combined schema, similarity, complexity, compatibility                  *)

\* combined["properties"].update(x): the merge of a dict, nothing for an
\* empty list or string, a TypeError/ValueError otherwise (the lists of the
\* model hold no two-element members)
DictUpdate(props, x) ==
    CASE x.k = "dict" -> Ok(x.d @@ props)
      [] x.k = "list" /\ x.l = <<>> -> Ok(props)
      [] x.k = "str" /\ x.s = "" -> Ok(props)
      [] OTHER -> Raise(props)

\* x["properties"] for an x that passed `"properties" in x`
GetProperties(x) == IF IsDict(x) THEN Ok(x.d["properties"]) ELSE Raise(JNull)

\* one `if endpoint.<side>_schema:` block of _get_combined_schema
MergeSide(props, side) ==
    IF Truthy(side) /\ HasKey(side, "properties")
      THEN With(GetProperties(side), LAMBDA g :
              IF g.exc THEN Raise(props) ELSE DictUpdate(props, g.val))
      ELSE Ok(props)

\* a plausible slip: the two merges in the other order, the request property
\* winning a name collision
CombinedSchemaRequestWins(endpoint) ==
    With(MergeSide(<<>>, endpoint.response_schema), LAMBDA a :
    With(IF a.exc THEN a ELSE MergeSide(a.val, endpoint.request_schema), LAMBDA b :
        IF b.exc THEN Raise(JNull)
        ELSE IF DOMAIN b.val # {}
               THEN Ok(JDict([type |-> JStr("object"), properties |-> JDict(b.val)]))
               ELSE Ok(JNull)))

\* val is JNull for None
_get_combined_schema(endpoint) ==
    With(MergeSide(<<>>, endpoint.request_schema), LAMBDA a :
    With(IF a.exc THEN a ELSE MergeSide(a.val, endpoint.response_schema), LAMBDA b :
        IF b.exc THEN Raise(JNull)
        ELSE IF DOMAIN b.val # {}
               THEN Ok(JDict([type |-> JStr("object"), properties |-> JDict(b.val)]))
               ELSE Ok(JNull)))

_calculate_schema_similarity(schema1, schema2) ==
    With(_extract_fields_from_schema(schema1, ""), LAMBDA f1 :
    With(_extract_fields_from_schema(schema2, ""), LAMBDA f2 :
        IF f1.exc \/ f2.exc THEN Raise(Zero)
        ELSE IF f1.val = {} /\ f2.val = {} THEN Ok(Zero)
        ELSE IF f1.val = {} \/ f2.val = {} THEN Ok(Zero)
        ELSE Ok(Frac(Cardinality(f1.val \cap f2.val), Cardinality(f1.val \cup f2.val)))))

\* sum of f over the set S
RECURSIVE SumOver(_, _)
SumOver(f, S) ==
    With(S, LAMBDA T :
        IF T = {} THEN 0
        ELSE With(CHOOSE y \in T : TRUE, LAMBDA x : f[x] + SumOver(f, T \ {x})))

\* len(x) raises on None; x.values() raises unless x is a dict
RECURSIVE _calculate_schema_complexity(_)
_calculate_schema_complexity(schema) ==
    IF ~IsDict(schema) THEN Ok(0)
    ELSE
    With(schema.d, LAMBDA d :
    With("properties" \in DOMAIN d /\ ~IsDict(d["properties"]), LAMBDA badP :
    With(IF "properties" \in DOMAIN d /\ ~badP THEN d["properties"].d ELSE <<>>, LAMBDA pd :
    With([n \in DOMAIN pd |->
            IF IsDict(pd[n]) THEN _calculate_schema_complexity(pd[n]) ELSE Ok(0)],
         LAMBDA sub :
    With(IF "items" \in DOMAIN d /\ IsDict(d["items"])
           THEN _calculate_schema_complexity(d["items"]) ELSE Ok(0), LAMBDA arr :
        IF badP \/ (\E n \in DOMAIN pd : sub[n].exc) \/ arr.exc THEN Raise(0)
        ELSE Ok(Cardinality(DOMAIN pd)
                + SumOver([n \in DOMAIN pd |-> sub[n].val], DOMAIN pd)
                + (IF "items" \in DOMAIN d THEN 1 + arr.val ELSE 0)))))))

\* a plausible slip: the share of the output fields, not of the input fields
CompatibilityOverOutput(output_schema, input_schema) ==
    With(_extract_fields_from_schema(output_schema, ""), LAMBDA o :
    With(_extract_fields_from_schema(input_schema, ""), LAMBDA i :
        IF o.exc \/ i.exc THEN Raise(Zero)
        ELSE IF o.val = {} THEN Ok(Zero)
        ELSE Ok(Frac(Cardinality(o.val \cap i.val), Cardinality(o.val)))))

_calculate_schema_compatibility(output_schema, input_schema) ==
    With(_extract_fields_from_schema(output_schema, ""), LAMBDA o :
    With(_extract_fields_from_schema(input_schema, ""), LAMBDA i :
        IF o.exc \/ i.exc THEN Raise(Zero)
        ELSE IF i.val = {} THEN Ok(Zero)
        ELSE Ok(Frac(Cardinality(o.val \cap i.val), Cardinality(i.val)))))

-----------------------------------------------------------------------------
(* Path normalizer and matcher                                             *)

\* position of the first "}" at or after position n of s, 0 when none
RECURSIVE FirstClose(_, _)
FirstClose(s, n) ==
    With(n, LAMBDA m :
        IF m > Len(s) THEN 0 ELSE IF s[m] = "}" THEN m ELSE FirstClose(s, m + 1))

\* re.sub(r'\{[^}]+\}', '', path), scanning from position n
RECURSIVE RemoveParams(_, _)
RemoveParams(s, n) ==
    With(n, LAMBDA m :
        IF m > Len(s) THEN <<>>
        ELSE With(FirstClose(s, m + 1), LAMBDA c :
                IF s[m] = "{" /\ c >= m + 2
                  THEN RemoveParams(s, c + 1)
                  ELSE <<s[m]>> \o RemoveParams(s, m + 1)))

\* str.rstrip('/')
RECURSIVE RStripSlash(_)
RStripSlash(s) ==
    With(s, LAMBDA t :
        IF t # <<>> /\ t[Len(t)] = "/" THEN RStripSlash(SubSeq(t, 1, Len(t) - 1)) ELSE t)

\* str.lower() on the alphabet of the model's paths
LowerChar(c) ==
    CASE c = "U" -> "u" [] c = "S" -> "s" [] c = "E" -> "e" [] c = "R" -> "r"
      [] c = "O" -> "o" [] c = "D" -> "d" [] c = "I" -> "i"
      [] OTHER -> c

Lower(s) == With(s, LAMBDA t : [n \in 1..Len(t) |-> LowerChar(t[n])])

_clean_path(path) ==
    With(path, LAMBDA p : Lower(RStripSlash(RemoveParams(p, 1))))

\* path.split('/') with the empty pieces dropped; cur is the piece being read
RECURSIVE SplitFrom(_, _, _)
SplitFrom(s, n, cur) ==
    With(n, LAMBDA m :
    With(cur, LAMBDA piece :
        IF m > Len(s) THEN (IF piece = <<>> THEN <<>> ELSE <<piece>>)
        ELSE IF s[m] = "/"
               THEN (IF piece = <<>> THEN <<>> ELSE <<piece>>) \o SplitFrom(s, m + 1, <<>>)
               ELSE SplitFrom(s, m + 1, Append(piece, s[m]))))

Segments(path) == With(path, LAMBDA p : SplitFrom(p, 1, <<>>))

\* Python `a in b` for two strings
IsSubstring(a, b) ==
    \E n \in 0..(Len(b) - Len(a)) : SubSeq(b, n + 1, n + Len(a)) = a

\* a plausible slip: segments of three characters are compared as well
SimilarSegmentsFromThree(seg1, seg2) ==
    IF seg1 # <<>> /\ seg1[1] = "{" /\ seg2 # <<>> /\ seg2[1] = "{" THEN TRUE
    ELSE IF Len(seg1) >= 3 /\ Len(seg2) >= 3
           THEN IsSubstring(seg1, seg2) \/ IsSubstring(seg2, seg1)
           ELSE FALSE

_are_similar_segments(seg1, seg2) ==
    IF seg1 # <<>> /\ seg1[1] = "{" /\ seg2 # <<>> /\ seg2[1] = "{" THEN TRUE
    ELSE IF Len(seg1) > 3 /\ Len(seg2) > 3
           THEN IsSubstring(seg1, seg2) \/ IsSubstring(seg2, seg1)
           ELSE FALSE

Min(a, b) == IF a < b THEN a ELSE b
Max(a, b) == IF a > b THEN a ELSE b

_calculate_path_similarity(path1, path2) ==
    With(Segments(path1), LAMBDA segments1 :
    With(Segments(path2), LAMBDA segments2 :
    With(Max(Len(segments1), Len(segments2)), LAMBDA max_len :
    With(Min(Len(segments1), Len(segments2)), LAMBDA min_len :
    With(Cardinality({n \in 1..min_len :
                         segments1[n] = segments2[n]
                         \/ _are_similar_segments(segments1[n], segments2[n])}),
         LAMBDA common_segments :
        IF segments1 = <<>> /\ segments2 = <<>> THEN One
        ELSE IF segments1 = <<>> \/ segments2 = <<>> THEN Zero
        ELSE Frac(common_segments, max_len))))))

crud_methods == {"GET", "POST", "PUT", "DELETE", "PATCH"}
PathThreshold == <<7, 10>>
CrudScore == <<4, 5>>

\* a plausible slip: the test that the two methods differ is missing
CrudSameMethodToo(endpoint1, endpoint2) ==
    With(_calculate_path_similarity(_clean_path(endpoint1.path),
                                    _clean_path(endpoint2.path)), LAMBDA path_similarity :
        IF FLt(path_similarity, PathThreshold) THEN Zero
        ELSE IF endpoint1.method \in crud_methods /\ endpoint2.method \in crud_methods
               THEN CrudScore
               ELSE Zero)

_analyze_crud_relationship(endpoint1, endpoint2) ==
    With(_calculate_path_similarity(_clean_path(endpoint1.path),
                                    _clean_path(endpoint2.path)), LAMBDA path_similarity :
        IF FLt(path_similarity, PathThreshold) THEN Zero
        ELSE IF endpoint1.method \in crud_methods /\ endpoint2.method \in crud_methods
                /\ endpoint1.method # endpoint2.method
               THEN CrudScore
               ELSE Zero)

-----------------------------------------------------------------------------
(* Pairwise relationship scorer                                            *)

COMMON_FIELDS == "common_fields"
SIMILAR_SCHEMA == "similar_schema"
DATA_FLOW == "data_flow"
\* insertion order of the dict built by _analyze_endpoint_pair
RelationshipTypes == <<COMMON_FIELDS, SIMILAR_SCHEMA, DATA_FLOW>>

NoCandidate == [score |-> Zero, common_fields |-> {}, metadata |-> <<>>]

\* a plausible slip: the overlap coefficient, divided by the smaller field set
CommonFieldsOverSmaller(endpoint1, endpoint2) ==
    With(_extract_fields_from_endpoint(endpoint1), LAMBDA f1 :
    With(_extract_fields_from_endpoint(endpoint2), LAMBDA f2 :
    With(f1.val \cap f2.val, LAMBDA common :
        IF f1.exc \/ f2.exc THEN Raise(NoCandidate)
        ELSE IF common = {} THEN Ok(NoCandidate)
        ELSE Ok([score |-> Frac(Cardinality(common),
                                Min(Cardinality(f1.val), Cardinality(f2.val))),
                 common_fields |-> common,
                 metadata |-> [endpoint1_fields |-> Cardinality(f1.val),
                               endpoint2_fields |-> Cardinality(f2.val),
                               common_count |-> Cardinality(common),
                               total_unique |-> Cardinality(f1.val \cup f2.val)]]))))

_analyze_common_fields(endpoint1, endpoint2) ==
    With(_extract_fields_from_endpoint(endpoint1), LAMBDA f1 :
    With(_extract_fields_from_endpoint(endpoint2), LAMBDA f2 :
    With(f1.val \cap f2.val, LAMBDA common :
    With(Cardinality(f1.val \cup f2.val), LAMBDA total_unique_fields :
        IF f1.exc \/ f2.exc THEN Raise(NoCandidate)
        ELSE IF common = {} THEN Ok(NoCandidate)
        ELSE Ok([score |-> IF total_unique_fields > 0
                             THEN Frac(Cardinality(common), total_unique_fields)
                             ELSE Zero,
                 common_fields |-> common,
                 metadata |-> [endpoint1_fields |-> Cardinality(f1.val),
                               endpoint2_fields |-> Cardinality(f2.val),
                               common_count |-> Cardinality(common),
                               total_unique |-> total_unique_fields]])))))

_analyze_schema_similarity(endpoint1, endpoint2) ==
    With(_get_combined_schema(endpoint1), LAMBDA schema1 :
    With(_get_combined_schema(endpoint2), LAMBDA schema2 :
        IF schema1.exc \/ schema2.exc THEN Raise(NoCandidate)
        ELSE IF schema1.val = JNull \/ schema2.val = JNull THEN Ok(NoCandidate)
        ELSE
        With(_calculate_schema_similarity(schema1.val, schema2.val), LAMBDA sim :
        With(_calculate_schema_complexity(schema1.val), LAMBDA c1 :
        With(_calculate_schema_complexity(schema2.val), LAMBDA c2 :
            IF sim.exc \/ c1.exc \/ c2.exc THEN Raise(NoCandidate)
            ELSE Ok([score |-> sim.val,
                     common_fields |-> {},
                     metadata |-> [schema1_complexity |-> c1.val,
                                   schema2_complexity |-> c2.val,
                                   structural_similarity |-> sim.val]]))))))

\* lines 136-168 once the two compatibility scores are known: the best of
\* the two flows and the CRUD score, the first one winning a tie
BestFlow(endpoint1, endpoint2, try12, score_1_to_2, try21, score_2_to_1) ==
    With(_analyze_crud_relationship(endpoint1, endpoint2), LAMBDA crud_score :
    With(IF try12 /\ FGt(score_1_to_2.val, Zero)
           THEN [score |-> score_1_to_2.val, dir |-> "1_to_2"]
           ELSE [score |-> Zero, dir |-> "None"], LAMBDA s1 :
    With(IF try21 /\ FGt(score_2_to_1.val, s1.score)
           THEN [score |-> score_2_to_1.val, dir |-> "2_to_1"] ELSE s1, LAMBDA s2 :
    With(IF FGt(crud_score, s2.score)
           THEN [score |-> crud_score, dir |-> "crud_operations"] ELSE s2, LAMBDA s3 :
        IF score_1_to_2.exc \/ score_2_to_1.exc THEN Raise(NoCandidate)
        ELSE Ok([score |-> s3.score,
                 common_fields |-> {},
                 metadata |-> [flow_direction |-> s3.dir,
                               crud_relationship |-> FGt(crud_score, Zero),
                               path_similarity |->
                                   _calculate_path_similarity(endpoint1.path,
                                                              endpoint2.path)]])))))

\* a plausible slip: only the flow from endpoint1 to endpoint2 is tried
DataFlowOneWay(endpoint1, endpoint2) ==
    With(Truthy(endpoint1.response_schema) /\ Truthy(endpoint2.request_schema),
         LAMBDA try12 :
    With(IF try12
           THEN _calculate_schema_compatibility(endpoint1.response_schema,
                                                endpoint2.request_schema)
           ELSE Ok(Zero), LAMBDA score_1_to_2 :
        BestFlow(endpoint1, endpoint2, try12, score_1_to_2, FALSE, Ok(Zero))))

_analyze_data_flow(endpoint1, endpoint2) ==
    With(Truthy(endpoint1.response_schema) /\ Truthy(endpoint2.request_schema),
         LAMBDA try12 :
    With(Truthy(endpoint2.response_schema) /\ Truthy(endpoint1.request_schema),
         LAMBDA try21 :
    With(IF try12
           THEN _calculate_schema_compatibility(endpoint1.response_schema,
                                                endpoint2.request_schema)
           ELSE Ok(Zero), LAMBDA score_1_to_2 :
    With(IF try21
           THEN _calculate_schema_compatibility(endpoint2.response_schema,
                                                endpoint1.request_schema)
           ELSE Ok(Zero), LAMBDA score_2_to_1 :
        BestFlow(endpoint1, endpoint2, try12, score_1_to_2, try21, score_2_to_1)))))

\* the three analyses of lines 68-81, by relationship type
Candidates(endpoint1, endpoint2) ==
    (COMMON_FIELDS :> _analyze_common_fields(endpoint1, endpoint2))
    @@ (SIMILAR_SCHEMA :> _analyze_schema_similarity(endpoint1, endpoint2))
    @@ (DATA_FLOW :> _analyze_data_flow(endpoint1, endpoint2))

\* a plausible slip: the same-endpoint test is missing
PairWithoutSelfCheck(endpoint1, endpoint2) ==
    With(Candidates(endpoint1, endpoint2), LAMBDA rel :
        IF \E t \in DOMAIN rel : rel[t].exc THEN Raise(<<>>)
        ELSE Ok([t \in {u \in DOMAIN rel : FGt(rel[u].val.score, Zero)} |-> rel[t].val]))

\* a plausible slip: >= 0 where > 0 is meant
PairKeepsZeroScores(endpoint1, endpoint2) ==
    IF endpoint1.id = endpoint2.id THEN Ok(<<>>)
    ELSE
    With(Candidates(endpoint1, endpoint2), LAMBDA rel :
        IF \E t \in DOMAIN rel : rel[t].exc THEN Raise(<<>>)
        ELSE Ok([t \in {u \in DOMAIN rel : FGe(rel[u].val.score, Zero)} |-> rel[t].val]))

\* val: relationship type -> candidate, for the types that were kept
_analyze_endpoint_pair(endpoint1, endpoint2) ==
    IF endpoint1.id = endpoint2.id THEN Ok(<<>>)
    ELSE
    With(Candidates(endpoint1, endpoint2), LAMBDA rel :
        IF \E t \in DOMAIN rel : rel[t].exc THEN Raise(<<>>)
        ELSE Ok([t \in {u \in DOMAIN rel : FGt(rel[u].val.score, Zero)} |-> rel[t].val]))

-----------------------------------------------------------------------------
(* Field report: field type inference                                      *)

\* the spelling of the words the rules look for
W_id == <<"i", "d">>
W_date == <<"d", "a", "t", "e">>
W_time == <<"t", "i", "m", "e">>
W_created == <<"c", "r", "e", "a", "t", "e", "d">>
W_updated == <<"u", "p", "d", "a", "t", "e", "d">>
W_timestamp == <<"t", "i", "m", "e", "s", "t", "a", "m", "p">>
W_name == <<"n", "a", "m", "e">>
W_title == <<"t", "i", "t", "l", "e">>
W_label == <<"l", "a", "b", "e", "l">>
W_email == <<"e", "m", "a", "i", "l">>
W_status == <<"s", "t", "a", "t", "u", "s">>
W_state == <<"s", "t", "a", "t", "e">>
W_active == <<"a", "c", "t", "i", "v", "e">>
W_enabled == <<"e", "n", "a", "b", "l", "e", "d">>
W_count == <<"c", "o", "u", "n", "t">>
W_total == <<"t", "o", "t", "a", "l">>
W_number == <<"n", "u", "m", "b", "e", "r">>
W_amount == <<"a", "m", "o", "u", "n", "t">>

\* str.endswith
EndsWith(s, suffix) ==
    Len(s) >= Len(suffix) /\ SubSeq(s, Len(s) - Len(suffix) + 1, Len(s)) = suffix

\* any(pattern in field_lower for pattern in patterns)
AnyIn(patterns, field_lower) == \E pattern \in patterns : IsSubstring(pattern, field_lower)

\* a plausible slip: the email rule is tried before the name rule
InferEmailBeforeName(field_name, endpoint) ==
    With(Lower(field_name), LAMBDA field_lower :
        IF EndsWith(field_lower, W_id) \/ field_lower = W_id THEN "identifier"
        ELSE IF AnyIn({W_date, W_time, W_created, W_updated, W_timestamp}, field_lower)
          THEN "datetime"
        ELSE IF IsSubstring(W_email, field_lower) THEN "email"
        ELSE IF AnyIn({W_name, W_title, W_label}, field_lower) THEN "name"
        ELSE IF AnyIn({W_status, W_state, W_active, W_enabled}, field_lower) THEN "status"
        ELSE IF AnyIn({W_count, W_total, W_number, W_amount}, field_lower) THEN "numeric"
        ELSE "unknown")

\* field_name is the sequence of the characters of the name
_infer_field_type(field_name, endpoint) ==
    With(Lower(field_name), LAMBDA field_lower :
        IF EndsWith(field_lower, W_id) \/ field_lower = W_id THEN "identifier"
        ELSE IF AnyIn({W_date, W_time, W_created, W_updated, W_timestamp}, field_lower)
          THEN "datetime"
        ELSE IF AnyIn({W_name, W_title, W_label}, field_lower) THEN "name"
        ELSE IF IsSubstring(W_email, field_lower) THEN "email"
        ELSE IF AnyIn({W_status, W_state, W_active, W_enabled}, field_lower) THEN "status"
        ELSE IF AnyIn({W_count, W_total, W_number, W_amount}, field_lower) THEN "numeric"
        ELSE "unknown")

-----------------------------------------------------------------------------
(* Inputs                                                                  *)

MaxServices == 1        \* services ever created
MaxEndpoints == 3       \* endpoints ever created
MaxRelationshipId == 2  \* relationship ids asked to be deleted
MaxDataModels == 2      \* data models ever created
MaxTaxonomies == 3      \* largest taxonomy id
MaxLevel == 2           \* largest stored taxonomy level
MaxPathLen == 5         \* longest stored taxonomy path

PUsers == <<"/", "u", "s", "e", "r", "s">>
PUsersId == <<"/", "u", "s", "e", "r", "s", "/", "{", "i", "d", "}">>
PUsersUp == <<"/", "U", "s", "e", "r", "s", "/">>
POrders == <<"/", "o", "r", "d", "e", "r", "s">>
PUserOrders == <<"/", "u", "s", "e", "r", "s", "/", "{", "i", "d", "}", "/", "o", "r", "d", "e", "r", "s">>

Leaf == JDict([type |-> JStr("string")])
Obj(props) == JDict([type |-> JStr("object"), properties |-> JDict(props)])
Params(loc, names) ==
    JDict(loc :> JList([n \in 1..Len(names) |-> JDict([name |-> JStr(names[n])])]))

UserSchema == Obj([id |-> Leaf, name |-> Leaf, email |-> Leaf])
UserInput == Obj([id |-> Leaf, name |-> Leaf])
OrderSchema ==
    Obj([id |-> Leaf, total |-> Leaf, status |-> Leaf,
         lines |-> JDict([type |-> JStr("array"),
                          items |-> Obj([sku |-> Leaf])])])
\* ten fields, three of them shared with UserSchema
AccountSchema ==
    Obj([id |-> Leaf, name |-> Leaf, email |-> Leaf, plan |-> Leaf,
         owner |-> Obj([phone |-> Leaf, city |-> Leaf]),
         tags |-> JDict([type |-> JStr("array"), items |-> Obj([label |-> Leaf])])]
        @@ [seats |-> Leaf])
\* "properties" that is not a mapping
BadSchema == JDict([type |-> JStr("object"), properties |-> JList(<<JStr("a")>>)])

Payload(path, method, req, resp, params) ==
    [path |-> path, method |-> method, request_schema |-> req,
     response_schema |-> resp, parameters |-> params]

GetUser == Payload(PUsersId, "GET", JNull, UserSchema, Params("path", <<"id">>))
PostUser == Payload(PUsers, "POST", UserInput, Obj([id |-> Leaf]), EmptyDict)
DeleteUser == Payload(PUsersId, "DELETE", JNull, JNull, JNull)
GetOrders == Payload(POrders, "GET", JNull, OrderSchema, EmptyDict)
PutAccount == Payload(PUsersUp, "PUT", AccountSchema, JNull, EmptyDict)
BadOrder == Payload(POrders, "POST", BadSchema, JNull, EmptyDict)
PatchUser == Payload(PUsers, "PATCH", UserInput, JNull, EmptyDict)
MoveAccount ==
    Payload(PUsersUp, "POST",
            Obj([id |-> Leaf, owner |-> Obj([phone |-> Leaf])]),
            Obj([owner |-> Leaf, plan |-> Leaf]),
            Params("query", <<"name">>))
FindUser == Payload(PUsers, "GET", JNull, JNull, Params("query", <<"name", "plan">>))

\* request bodies of create_endpoint / update_endpoint
Payloads == {GetUser, PostUser, PutAccount, BadOrder}

-----------------------------------------------------------------------------
(* The store and the request handlers                                      *)

NoCall == [fn |-> "none"]
\* the `results` dict of lines 24-30
NewResults(n) == [total_endpoints |-> n, relationships_created |-> 0,
                  common_fields_found |-> 0, similar_schemas |-> 0,
                  data_flow_patterns |-> 0]
\* no summary: the last request was not a completed analysis
NoResults == NewResults(-1)
NoRun == [rows |-> {}, results |-> NoResults]

Init ==
    /\ services = {}
    /\ service_counter = 1
    /\ endpoints = <<>>
    /\ endpoint_counter = 1
    /\ relationships = {}
    /\ pc = "idle"
    /\ scanned = <<>>
    /\ pi = 0
    /\ pj = 0
    /\ pending = <<>>
    /\ results = NoResults
    /\ before_run = NoRun
    /\ response = 0
    /\ call = NoCall
    /\ data_models = <<>>
    /\ data_model_counter = 1
    /\ taxonomies = <<>>

analysisVars == <<pc, scanned, pi, pj, pending>>

\* services router over InMemoryCache.create_service
create_service ==
    /\ UNCHANGED catalogVars
    /\ pc = "idle"
    /\ service_counter <= MaxServices
    /\ services' = services \cup {service_counter}
    /\ service_counter' = service_counter + 1
    /\ response' = 200
    /\ UNCHANGED <<endpoints, endpoint_counter, relationships, analysisVars>>
    /\ call' = NoCall
    /\ results' = NoResults
    /\ before_run' = NoRun

\* InMemoryCache.delete_service: the service and its endpoints
delete_service(service_id) ==
    /\ UNCHANGED catalogVars
    /\ pc = "idle"
    /\ IF service_id \in services
         THEN /\ endpoints' = [e \in {x \in DOMAIN endpoints :
                                          endpoints[x].service_id # service_id}
                                  |-> endpoints[e]]
              /\ services' = services \ {service_id}
              /\ response' = 200
         ELSE /\ UNCHANGED <<endpoints, services>>
              /\ response' = 404
    /\ UNCHANGED <<service_counter, endpoint_counter, relationships, analysisVars>>
    /\ call' = NoCall
    /\ results' = NoResults
    /\ before_run' = NoRun

get_endpoints_by_service(service_id) ==
    {e \in DOMAIN endpoints : endpoints[e].service_id = service_id}

create_endpoint(service_id, endpoint) ==
    /\ UNCHANGED catalogVars
    /\ pc = "idle"
    /\ IF service_id \notin services
         THEN /\ response' = 404
              /\ UNCHANGED <<endpoints, endpoint_counter>>
         ELSE IF \E ep \in get_endpoints_by_service(service_id) :
                    /\ endpoints[ep].path = endpoint.path
                    /\ endpoints[ep].method = endpoint.method
         THEN /\ response' = 400
              /\ UNCHANGED <<endpoints, endpoint_counter>>
         ELSE /\ endpoint_counter <= MaxEndpoints
              /\ endpoints' = (endpoint_counter :>
                                  (endpoint @@ [id |-> endpoint_counter,
                                                service_id |-> service_id]))
                              @@ endpoints
              /\ endpoint_counter' = endpoint_counter + 1
              /\ response' = 200
    /\ UNCHANGED <<services, service_counter, relationships, analysisVars>>
    /\ call' = NoCall
    /\ results' = NoResults
    /\ before_run' = NoRun

\* update_data.get(key, default)
GetOr(update_data, key, default) ==
    IF key \in DOMAIN update_data THEN update_data[key] ELSE default

\* a plausible slip: the conflict test runs only when both keys are sent
UpdateConflictBothKeys(endpoint_id, update_data) ==
    /\ "path" \in DOMAIN update_data /\ "method" \in DOMAIN update_data
    /\ \E ep \in get_endpoints_by_service(endpoints[endpoint_id].service_id) :
          /\ endpoints[ep].path = GetOr(update_data, "path", endpoints[endpoint_id].path)
          /\ endpoints[ep].method = GetOr(update_data, "method", endpoints[endpoint_id].method)
          /\ ep # endpoint_id

\* the conflict test of update_endpoint: another endpoint of the service has
\* the path and method the update would give this one
UpdateConflict(endpoint_id, update_data) ==
    /\ "path" \in DOMAIN update_data \/ "method" \in DOMAIN update_data
    /\ \E ep \in get_endpoints_by_service(endpoints[endpoint_id].service_id) :
          /\ endpoints[ep].path = GetOr(update_data, "path", endpoints[endpoint_id].path)
          /\ endpoints[ep].method = GetOr(update_data, "method", endpoints[endpoint_id].method)
          /\ ep # endpoint_id

\* InMemoryCache.update_endpoint: every key of the body but id and service_id
UpdatedEndpoint(endpoint, endpoint_data) ==
    [key \in DOMAIN endpoint \cup (DOMAIN endpoint_data \ {"id", "service_id"}) |->
        IF key \in DOMAIN endpoint_data \ {"id", "service_id"}
          THEN endpoint_data[key] ELSE endpoint[key]]

\* PUT /endpoints/{id}; the body holds the fields that were sent
update_endpoint(endpoint_id, endpoint_update) ==
    /\ UNCHANGED catalogVars
    /\ pc = "idle"
    /\ IF endpoint_id \notin DOMAIN endpoints
         THEN /\ response' = 404
              /\ UNCHANGED endpoints
         ELSE IF UpdateConflict(endpoint_id, endpoint_update)
         THEN /\ response' = 400
              /\ UNCHANGED endpoints
         ELSE /\ endpoints' = [endpoints EXCEPT ![endpoint_id] =
                                  UpdatedEndpoint(@, endpoint_update)]
              /\ response' = 200
    /\ results' = NoResults
    /\ before_run' = NoRun
    /\ UNCHANGED <<services, service_counter, endpoint_counter, relationships,
                   analysisVars>>
    /\ call' = NoCall

delete_endpoint(endpoint_id) ==
    /\ UNCHANGED catalogVars
    /\ pc = "idle"
    /\ IF endpoint_id \notin DOMAIN endpoints
         THEN /\ response' = 404
              /\ UNCHANGED endpoints
         ELSE /\ endpoints' = [e \in DOMAIN endpoints \ {endpoint_id} |-> endpoints[e]]
              /\ response' = 200
    /\ results' = NoResults
    /\ before_run' = NoRun
    /\ UNCHANGED <<services, service_counter, endpoint_counter, relationships,
                   analysisVars>>
    /\ call' = NoCall

\* DELETE /relationships/{relationship_id}
delete_relationship(relationship_id) ==
    /\ UNCHANGED catalogVars
    /\ pc = "idle"
    /\ IF \E r \in relationships : r.id = relationship_id
         THEN /\ relationships' = {r \in relationships : r.id # relationship_id}
              /\ response' = 200
         ELSE /\ UNCHANGED relationships
              /\ response' = 404
    /\ results' = NoResults
    /\ before_run' = NoRun
    /\ UNCHANGED <<services, service_counter, endpoints, endpoint_counter,
                   analysisVars>>
    /\ call' = NoCall

-----------------------------------------------------------------------------
(* analyze_all_relationships, one step per database call or scored pair    *)

similarity_threshold == <<3, 10>>

\* db.query(Endpoint).all(): the endpoint rows in id order
RECURSIVE EndpointsUpTo(_)
EndpointsUpTo(n) ==
    IF n = 0 THEN <<>>
    ELSE EndpointsUpTo(n - 1) \o (IF n \in DOMAIN endpoints THEN <<endpoints[n]>> ELSE <<>>)

AllEndpoints == EndpointsUpTo(endpoint_counter - 1)

\* a plausible slip: source and target exchanged
NewRelationshipSwapped(endpoint1, endpoint2, rel_type, rel_data) ==
    [source_endpoint_id |-> endpoint2.id,
     target_endpoint_id |-> endpoint1.id,
     relationship_type |-> rel_type,
     common_fields |-> rel_data.common_fields,
     similarity_score |-> rel_data.score,
     relationship_metadata |-> rel_data.metadata]

\* the Relationship object of lines 39-46, before the database gives it an id
NewRelationship(endpoint1, endpoint2, rel_type, rel_data) ==
    [source_endpoint_id |-> endpoint1.id,
     target_endpoint_id |-> endpoint2.id,
     relationship_type |-> rel_type,
     common_fields |-> rel_data.common_fields,
     similarity_score |-> rel_data.score,
     relationship_metadata |-> rel_data.metadata]

\* a plausible slip: keep whatever the scorer returned
PassesAnyScore(rel_data) == FGt(rel_data.score, Zero)
\* line 38
PassesThreshold(rel_data) == FGe(rel_data.score, similarity_threshold)

\* candidates of one pair that pass the threshold, in the order of the loop
\* of line 37
RECURSIVE KeptFrom(_, _, _, _)
KeptFrom(endpoint1, endpoint2, rels, n) ==
    IF n > Len(RelationshipTypes) THEN <<>>
    ELSE LET t == RelationshipTypes[n]
         IN  (IF t \in DOMAIN rels /\ PassesThreshold(rels[t])
                THEN <<NewRelationship(endpoint1, endpoint2, t, rels[t])>>
                ELSE <<>>)
             \o KeptFrom(endpoint1, endpoint2, rels, n + 1)

CountType(rows, t) == Cardinality({n \in 1..Len(rows) : rows[n].relationship_type = t})

\* a plausible slip: the similar-schema branch never counts
TallyTwoTypes(res, rows) ==
    [res EXCEPT !.relationships_created = @ + Len(rows),
                !.common_fields_found = @ + CountType(rows, COMMON_FIELDS),
                !.data_flow_patterns = @ + CountType(rows, DATA_FLOW)]

\* the counters of lines 48-55 after the rows of one pair
Tally(res, rows) ==
    [res EXCEPT !.relationships_created = @ + Len(rows),
                !.common_fields_found = @ + CountType(rows, COMMON_FIELDS),
                !.similar_schemas = @ + CountType(rows, SIMILAR_SCHEMA),
                !.data_flow_patterns = @ + CountType(rows, DATA_FLOW)]

\* INTEGER PRIMARY KEY of SQLite: one more than the largest id in the table
NextId(rows) ==
    IF rows = {} THEN 1
    ELSE (CHOOSE m \in {r.id : r \in rows} : \A r \in rows : r.id <= m) + 1

\* db.commit() of the added rows
Flush(rows, added) ==
    rows \cup {added[n] @@ [id |-> NextId(rows) + n - 1] : n \in 1..Len(added)}

\* line 18 and line 21: read the endpoints, issue the DELETE
AnalyzeStart ==
    /\ UNCHANGED catalogVars
    /\ pc = "idle"
    /\ scanned' = AllEndpoints
    /\ pc' = "deleted"
    /\ pending' = <<>>
    /\ results' = NoResults
    /\ before_run' = [rows |-> relationships, results |-> results]
    /\ response' = 0
    /\ UNCHANGED <<services, service_counter, endpoints, endpoint_counter,
                   relationships, pi, pj>>
    /\ call' = NoCall

\* a plausible slip: the old rows are not deleted
AnalyzeClearKeepsRows ==
    /\ UNCHANGED catalogVars
    /\ pc = "deleted"
    /\ relationships' = relationships
    /\ results' = NewResults(Len(scanned))
    /\ pi' = 1
    /\ pj' = 2
    /\ pc' = "scan"
    /\ UNCHANGED <<services, service_counter, endpoints, endpoint_counter,
                   scanned, pending, before_run, response, call>>

\* a plausible slip: the DELETE is filtered and spares the data-flow rows
AnalyzeClearPartial ==
    /\ UNCHANGED catalogVars
    /\ pc = "deleted"
    /\ relationships' = {r \in relationships : r.relationship_type = DATA_FLOW}
    /\ results' = NewResults(Len(scanned))
    /\ pi' = 1
    /\ pj' = 2
    /\ pc' = "scan"
    /\ UNCHANGED <<services, service_counter, endpoints, endpoint_counter,
                   scanned, pending, before_run, response, call>>

\* lines 22-30: commit the DELETE, set up the summary and the loop
AnalyzeClear ==
    /\ UNCHANGED catalogVars
    /\ pc = "deleted"
    /\ relationships' = {}
    /\ results' = NewResults(Len(scanned))
    /\ pi' = 1
    /\ pj' = 2
    /\ pc' = "scan"
    /\ UNCHANGED <<services, service_counter, endpoints, endpoint_counter,
                   scanned, pending, before_run, response, call>>

MorePairs == pi < Len(scanned)

\* lines 33-55 for the pair (pi, pj)
AnalyzePair ==
    /\ UNCHANGED catalogVars
    /\ pc = "scan"
    /\ MorePairs
    /\ LET rel == _analyze_endpoint_pair(scanned[pi], scanned[pj])
           rows == KeptFrom(scanned[pi], scanned[pj], rel.val, 1)
       IN  IF rel.exc
             THEN \* the exception ends the request; the session is discarded
                  /\ pc' = "idle"
                  /\ pending' = <<>>
                  /\ response' = 500
                  /\ scanned' = <<>>
                  /\ pi' = 0
                  /\ pj' = 0
                  /\ results' = NoResults
                  /\ before_run' = NoRun
             ELSE /\ pending' = pending \o rows
                  /\ results' = Tally(results, rows)
                  /\ IF pj < Len(scanned)
                       THEN pj' = pj + 1 /\ pi' = pi
                       ELSE pi' = pi + 1 /\ pj' = pi + 2
                  /\ UNCHANGED <<pc, response, scanned, before_run>>
    /\ UNCHANGED <<services, service_counter, endpoints, endpoint_counter,
                   relationships, call>>

\* lines 57-58: commit the added rows, return the summary
AnalyzeCommit ==
    /\ UNCHANGED catalogVars
    /\ pc = "scan"
    /\ ~MorePairs
    /\ relationships' = Flush(relationships, pending)
    /\ pending' = <<>>
    /\ pc' = "idle"
    /\ response' = 200
    /\ scanned' = <<>>
    /\ pi' = 0
    /\ pj' = 0
    /\ UNCHANGED <<services, service_counter, endpoints, endpoint_counter,
                   results, before_run, call>>

\* the process dies during a run: what was not committed is lost
Crash ==
    /\ UNCHANGED catalogVars
    /\ pc # "idle"
    /\ pc' = "idle"
    /\ pending' = <<>>
    /\ response' = 0
    /\ scanned' = <<>>
    /\ pi' = 0
    /\ pj' = 0
    /\ results' = NoResults
    /\ before_run' = NoRun
    /\ UNCHANGED <<services, service_counter, endpoints, endpoint_counter,
                   relationships, call>>

-----------------------------------------------------------------------------
(* get_relationship_graph: the graph view, built with networkx.Graph       *)

\* db.query(Relationship).all(): the relationship rows in id order
RECURSIVE RowsInOrder(_)
RowsInOrder(rows) ==
    IF rows = {} THEN <<>>
    ELSE With(CHOOSE r \in rows : \A q \in rows : r.id <= q.id, LAMBDA first :
             <<first>> \o RowsInOrder(rows \ {first}))

AllRelationships == RowsInOrder(relationships)

\* nx.Graph(): nodes in insertion order, the attribute dict of every node,
\* and the data dict of every edge; an edge is the set of its two ends
\* a dict without keys
NoAttrs == [k \in {} |-> k]
EmptyGraph == [nodes |-> <<>>, attrs |-> NoAttrs, adj |-> NoAttrs]

NodeSet(G) == {G.nodes[n] : n \in DOMAIN G.nodes}

\* G.add_node(n, **attr): a new node, or new attributes for a known one
add_node(G, n, attr) ==
    [nodes |-> IF n \in NodeSet(G) THEN G.nodes ELSE Append(G.nodes, n),
     attrs |-> (n :> (IF n \in DOMAIN G.attrs THEN attr @@ G.attrs[n] ELSE attr))
               @@ G.attrs,
     adj   |-> G.adj]

\* G.add_edge(u, v, **attr): nodes that are missing are added without
\* attributes; the data of an edge that exists is updated in place
add_edge(G, u, v, attr) ==
    With(add_node(add_node(G, u, NoAttrs), v, NoAttrs), LAMBDA H :
        [nodes |-> H.nodes,
         attrs |-> H.attrs,
         adj   |-> ({u, v} :> (IF {u, v} \in DOMAIN H.adj
                                 THEN attr @@ H.adj[{u, v}] ELSE attr))
                   @@ H.adj])

\* the label of line 364, f"{endpoint.method} {endpoint.path}"
Label(endpoint) == <<endpoint.method, " ">> \o endpoint.path

\* lines 361-367
RECURSIVE AddEndpoints(_, _, _)
AddEndpoints(G, eps, n) ==
    IF n > Len(eps) THEN G
    ELSE AddEndpoints(add_node(G, eps[n].id,
                               [label |-> Label(eps[n]),
                                service_id |-> eps[n].service_id,
                                method |-> eps[n].method,
                                path |-> eps[n].path]),
                      eps, n + 1)

\* lines 370-374
RECURSIVE AddRelationships(_, _, _)
AddRelationships(G, rels, n) ==
    IF n > Len(rels) THEN G
    ELSE AddRelationships(add_edge(G, rels[n].source_endpoint_id,
                                   rels[n].target_endpoint_id,
                                   [relationship_type |-> rels[n].relationship_type,
                                    similarity_score |-> rels[n].similarity_score,
                                    common_fields |-> rels[n].common_fields]),
                          rels, n + 1)

\* G after lines 358-374
BuildGraph(rels, eps) == AddRelationships(AddEndpoints(EmptyGraph, eps, 1), rels, 1)

number_of_nodes(G) == Len(G.nodes)
number_of_edges(G) == Cardinality(DOMAIN G.adj)

\* nx.density of an undirected graph
density(G) ==
    With(number_of_nodes(G), LAMBDA n :
    With(number_of_edges(G), LAMBDA m :
        IF m = 0 \/ n <= 1 THEN Zero ELSE Frac(2 * m, n * (n - 1))))

\* the nodes that can be reached from the nodes of S
RECURSIVE Reach(_, _)
Reach(G, S) ==
    With(S \cup {v \in NodeSet(G) : \E e \in DOMAIN G.adj : v \in e /\ e \cap S # {}},
         LAMBDA T : IF T = S THEN S ELSE Reach(G, T))

\* nx.number_connected_components
number_connected_components(G) == Cardinality({Reach(G, {v}) : v \in NodeSet(G)})

\* G.degree(v): a self-loop counts twice
Degree(G, v) ==
    Cardinality({e \in DOMAIN G.adj : v \in e}) + (IF {v} \in DOMAIN G.adj THEN 1 ELSE 0)

\* nx.degree_centrality: node -> degree / (n - 1), and 1 for every node of a
\* graph of at most one node
degree_centrality(G) ==
    [v \in NodeSet(G) |->
        IF number_of_nodes(G) <= 1 THEN One
        ELSE Frac(Degree(G, v), number_of_nodes(G) - 1)]

\* lines 377-382
Metrics(G) ==
    [total_nodes |-> number_of_nodes(G),
     total_edges |-> number_of_edges(G),
     density |-> density(G),
     connected_components |-> number_connected_components(G)]

\* line 386: the items sorted by score, largest first (the sort is stable),
\* cut to the first five
most_connected(G) ==
    With(degree_centrality(G), LAMBDA c :
    With([n \in DOMAIN G.nodes |->
            1 + Cardinality({k \in DOMAIN G.nodes :
                                \/ FGt(c[G.nodes[k]], c[G.nodes[n]])
                                \/ c[G.nodes[k]] = c[G.nodes[n]] /\ k < n})],
         LAMBDA place :
        [p \in 1..Min(5, Len(G.nodes)) |->
            With(G.nodes[CHOOSE n \in DOMAIN G.nodes : place[n] = p], LAMBDA v :
                [endpoint_id |-> v,
                 centrality_score |-> c[v],
                 endpoint_info |-> G.attrs[v]])]))

\* lines 390-399: a node without attributes has no "label"
NodeList(G) ==
    IF \E v \in NodeSet(G) : "label" \notin DOMAIN G.attrs[v]
      THEN Raise("KeyError")
      ELSE Ok([n \in DOMAIN G.nodes |->
                  [id |-> G.nodes[n],
                   label |-> G.attrs[G.nodes[n]].label,
                   service_id |-> G.attrs[G.nodes[n]].service_id,
                   method |-> G.attrs[G.nodes[n]].method,
                   path |-> G.attrs[G.nodes[n]].path]])

\* lines 400-409: G.edges(data=True) yields triples (u, v, data), and the
\* loop unpacks each of them into two names
EdgeList(G) ==
    IF DOMAIN G.adj = {} THEN Ok(<<>>) ELSE Raise("ValueError")

\* lines 355-421
graph_data(rels, eps) ==
    With(BuildGraph(rels, eps), LAMBDA G :
    With(Metrics(G), LAMBDA metrics :
    With(most_connected(G), LAMBDA most :
    With(NodeList(G), LAMBDA nodes :
    With(EdgeList(G), LAMBDA edges :
        IF nodes.exc THEN nodes
        ELSE IF edges.exc THEN edges
        ELSE Ok([nodes |-> nodes.val,
                 edges |-> edges.val,
                 metrics |-> metrics,
                 most_connected |-> most]))))))

\* GET /relationships/graph/visualization
get_relationship_graph ==
    /\ UNCHANGED catalogVars
    /\ pc = "idle"
    /\ \E out \in {graph_data(AllRelationships, AllEndpoints)} :
         /\ call' = [fn |-> "get_relationship_graph", out |-> out]
         /\ response' = IF out.exc THEN 500 ELSE 200
    /\ results' = NoResults
    /\ before_run' = NoRun
    /\ UNCHANGED <<services, service_counter, endpoints, endpoint_counter,
                   relationships, analysisVars>>

Next ==
    \/ create_service
    \/ \E s \in 1..MaxServices : delete_service(s)
    \/ \E s \in 1..MaxServices, p \in Payloads : create_endpoint(s, p)
    \/ \E e \in 1..MaxEndpoints, p \in Payloads : update_endpoint(e, p)
    \/ \E e \in 1..MaxEndpoints : delete_endpoint(e)
    \/ \E r \in 1..MaxRelationshipId : delete_relationship(r)
    \/ AnalyzeStart
    \/ AnalyzeClear
    \/ AnalyzePair
    \/ AnalyzeCommit
    \/ get_relationship_graph
    \/ Crash

Spec == Init /\ [][Next]_vars

-----------------------------------------------------------------------------
(* Statistics view: GET /relationships/statistics                          *)

\* line 93 reads db.func of the Session: a Session has no attribute func
SessionHasFunc == FALSE

\* line 136, as an exact fraction
relationship_coverage(total_relationships, total_endpoints) ==
    Frac(total_relationships * 100,
         Max((total_endpoints * (total_endpoints - 1)) \div 2, 1))

\* lines 86-141: the counts of lines 86-88, the grouping query of lines
\* 91-94 and the counts and the coverage of the returned dict
statistics(relationship_rows, endpoint_rows, service_rows) ==
    With(Cardinality(relationship_rows), LAMBDA total_relationships :
    With(Cardinality(DOMAIN endpoint_rows), LAMBDA total_endpoints :
    With(Cardinality(service_rows), LAMBDA total_services :
        IF ~SessionHasFunc THEN Raise("AttributeError")
        ELSE Ok([total_relationships |-> total_relationships,
                 total_endpoints |-> total_endpoints,
                 total_services |-> total_services,
                 relationship_coverage |->
                     relationship_coverage(total_relationships, total_endpoints)]))))

get_relationship_statistics ==
    /\ UNCHANGED catalogVars
    /\ pc = "idle"
    /\ \E out \in {statistics(relationships, endpoints, services)} :
         /\ call' = [fn |-> "get_relationship_statistics", out |-> out]
         /\ response' = IF out.exc THEN 500 ELSE 200
    /\ results' = NoResults
    /\ before_run' = NoRun
    /\ UNCHANGED <<services, service_counter, endpoints, endpoint_counter,
                   relationships, analysisVars>>

NextStatistics ==
    \/ Next
    \/ get_relationship_statistics

SpecStatistics == Init /\ [][NextStatistics]_vars

-----------------------------------------------------------------------------
(* Data models of the cache and the startup import                         *)

\* Optional[int]: None, or the integer
None == <<>>
Some(n) == <<n>>

\* InMemoryCache.create_data_model on the table `models` with counter `counter`
InMemoryCache_create_data_model(models, counter, model_data) ==
    (counter :> [id |-> counter,
                 name |-> model_data.name,
                 service_id |-> model_data.service_id,
                 taxonomy_id |-> GetOr(model_data, "taxonomy_id", None)])
        @@ models

\* the loops of main.py lines 64-72 over rows numbered from `first`
RECURSIVE CreateAll(_, _, _, _)
CreateAll(table, first, rows, n) ==
    IF n > Len(rows) THEN table
    ELSE With((first + n - 1 :> (rows[n] @@ [id |-> first + n - 1])) @@ table,
              LAMBDA next : CreateAll(next, first, rows, n + 1))

RECURSIVE CreateAllModels(_, _, _, _)
CreateAllModels(table, first, rows, n) ==
    IF n > Len(rows) THEN table
    ELSE With(InMemoryCache_create_data_model(table, first + n - 1, rows[n]),
              LAMBDA next : CreateAllModels(next, first, rows, n + 1))

\* startup_event, one test file that parses: the service, its endpoints and
\* its data models are put into the cache; it runs before any request
startup_event(endpoints_data, models_data) ==
    /\ pc = "idle"
    /\ response = 0
    /\ service_counter <= MaxServices
    /\ endpoint_counter + Len(endpoints_data) - 1 <= MaxEndpoints
    /\ data_model_counter + Len(models_data) - 1 <= MaxDataModels
    /\ services' = services \cup {service_counter}
    /\ service_counter' = service_counter + 1
    /\ endpoints' = CreateAll(endpoints, endpoint_counter,
                              [n \in DOMAIN endpoints_data |->
                                  endpoints_data[n] @@ [service_id |-> service_counter]], 1)
    /\ endpoint_counter' = endpoint_counter + Len(endpoints_data)
    /\ data_models' = CreateAllModels(data_models, data_model_counter,
                                      [n \in DOMAIN models_data |->
                                          models_data[n] @@ [service_id |-> service_counter]], 1)
    /\ data_model_counter' = data_model_counter + Len(models_data)
    /\ UNCHANGED <<relationships, analysisVars, results, before_run, response, call,
                   taxonomies>>

-----------------------------------------------------------------------------
(* Taxonomy router: taxonomies and data models through the Session         *)

\* `if x:` for an Optional[int]: neither None nor 0
IsSet(x) == x # None /\ x[1] # 0

\* .filter(Model.id == x).first(): the row, or None
FirstById(table, x) ==
    IF x # None /\ x[1] \in DOMAIN table THEN Some(table[x[1]]) ELSE None

\* the id SQLite gives a new row: one more than the largest id of the table
NextRowId(table) ==
    IF DOMAIN table = {} THEN 1 ELSE 1 + CHOOSE n \in DOMAIN table : \A m \in DOMAIN table : m <= n

\* f"{parent.path}/{name}" if parent.path else name
ChildPath(parent, name) == IF parent.path # "" THEN parent.path \o "/" \o name ELSE name

Children(table, taxonomy_id) == {c \in DOMAIN table : table[c].parent_id = Some(taxonomy_id)}

\* the request handlers leave the analysis, the endpoints and the cache's
\* counters alone
TaxonomyFrame ==
    /\ pc = "idle"
    /\ UNCHANGED <<service_counter, endpoints, endpoint_counter, relationships,
                   analysisVars, data_model_counter>>
    /\ results' = NoResults
    /\ before_run' = NoRun
    /\ call' = NoCall

\* the levels and paths the model follows
WithinBounds(table) ==
    \A t \in DOMAIN table : table[t].level <= MaxLevel /\ Len(table[t].path) <= MaxPathLen

\* POST /taxonomy
create_taxonomy(taxonomy) ==
    /\ TaxonomyFrame
    /\ UNCHANGED <<services, data_models>>
    /\ IF IsSet(taxonomy.parent_id) /\ FirstById(taxonomies, taxonomy.parent_id) = None
         THEN /\ response' = 404
              /\ UNCHANGED taxonomies
         ELSE IF \E t \in DOMAIN taxonomies :
                    /\ taxonomies[t].name = taxonomy.name
                    /\ taxonomies[t].parent_id = taxonomy.parent_id
         THEN /\ response' = 400
              /\ UNCHANGED taxonomies
         ELSE /\ NextRowId(taxonomies) <= MaxTaxonomies
              /\ taxonomies' =
                   (NextRowId(taxonomies) :>
                      [id |-> NextRowId(taxonomies),
                       name |-> taxonomy.name,
                       parent_id |-> taxonomy.parent_id,
                       level |-> IF IsSet(taxonomy.parent_id)
                                   THEN taxonomies[taxonomy.parent_id[1]].level + 1 ELSE 0,
                       path |-> IF IsSet(taxonomy.parent_id)
                                  THEN ChildPath(taxonomies[taxonomy.parent_id[1]],
                                                 taxonomy.name)
                                  ELSE taxonomy.name])
                   @@ taxonomies
              /\ WithinBounds(taxonomies')
              /\ response' = 200

\* _would_create_circular_reference: the walk from new_parent_id up the
\* parent_id links; "loops" when the walk never ends
RECURSIVE CircularWalk(_, _, _, _)
CircularWalk(table, taxonomy_id, current_id, seen) ==
    IF ~IsSet(current_id) THEN "no"
    ELSE IF current_id[1] = taxonomy_id THEN "yes"
    ELSE IF current_id[1] \in seen THEN "loops"
    ELSE CircularWalk(table, taxonomy_id,
                      IF current_id[1] \in DOMAIN table
                        THEN table[current_id[1]].parent_id ELSE None,
                      seen \cup {current_id[1]})

_would_create_circular_reference(table, taxonomy_id, new_parent_id) ==
    CircularWalk(table, taxonomy_id, new_parent_id, {})

\* _update_taxonomy_paths: the path of the taxonomy and of its descendants,
\* depth first; an id met again on the way down would recurse for ever
RECURSIVE _update_taxonomy_paths(_, _, _)
RECURSIVE UpdateChildrenPaths(_, _, _)
_update_taxonomy_paths(table, taxonomy_id, above) ==
    With(table[taxonomy_id], LAMBDA taxonomy :
    With(IF IsSet(taxonomy.parent_id)
           THEN With(FirstById(table, taxonomy.parent_id), LAMBDA parent :
                    IF parent # None /\ parent[1].path # ""
                      THEN parent[1].path \o "/" \o taxonomy.name ELSE taxonomy.name)
           ELSE taxonomy.name,
         LAMBDA path :
        UpdateChildrenPaths([table EXCEPT ![taxonomy_id].path = path],
                            Children(table, taxonomy_id) \ above,
                            above \cup {taxonomy_id})))
UpdateChildrenPaths(table, children, above) ==
    IF children = {} THEN table
    ELSE With(CHOOSE c \in children : TRUE, LAMBDA child :
            With(_update_taxonomy_paths(table, child, above), LAMBDA next :
                UpdateChildrenPaths(next, children \ {child}, above)))

\* lines 130-136: the taxonomy gets the level and the path its new parent
\* gives it, and the new parent_id
Moved(table, taxonomy_id, new_parent_id) ==
    With(table[taxonomy_id], LAMBDA taxonomy :
        [table EXCEPT ![taxonomy_id] =
            [id |-> taxonomy.id,
             name |-> taxonomy.name,
             parent_id |-> new_parent_id,
             level |-> IF IsSet(new_parent_id) THEN table[new_parent_id[1]].level + 1 ELSE 0,
             path |-> IF IsSet(new_parent_id)
                        THEN ChildPath(table[new_parent_id[1]], taxonomy.name)
                        ELSE taxonomy.name]])

\* PUT /taxonomy/{taxonomy_id}; the body holds the fields that were sent
update_taxonomy(taxonomy_id, update_data) ==
    /\ TaxonomyFrame
    /\ UNCHANGED <<services, data_models>>
    /\ IF taxonomy_id \notin DOMAIN taxonomies
         THEN /\ response' = 404
              /\ UNCHANGED taxonomies
         ELSE IF /\ "parent_id" \in DOMAIN update_data
                 /\ IsSet(update_data.parent_id)
                 /\ FirstById(taxonomies, update_data.parent_id) = None
         THEN /\ response' = 404
              /\ UNCHANGED taxonomies
         ELSE \E circular \in {IF "parent_id" \in DOMAIN update_data
                                 THEN _would_create_circular_reference(
                                          taxonomies, taxonomy_id, update_data.parent_id)
                                 ELSE "no"} :
              /\ circular # "loops"
              /\ IF circular = "yes"
                   THEN /\ response' = 400
                        /\ UNCHANGED taxonomies
                   ELSE /\ \E moved \in {IF "parent_id" \in DOMAIN update_data
                                           THEN Moved(taxonomies, taxonomy_id,
                                                      update_data.parent_id)
                                           ELSE taxonomies} :
                           taxonomies' =
                              IF "name" \in DOMAIN update_data
                                THEN _update_taxonomy_paths(
                                         [moved EXCEPT ![taxonomy_id].name = update_data.name],
                                         taxonomy_id, {})
                                ELSE moved
                        /\ WithinBounds(taxonomies')
                        /\ response' = 200

\* _delete_taxonomy_recursive: the rows left in both tables
RECURSIVE _delete_taxonomy_recursive(_, _)
RECURSIVE DeleteChildren(_, _)
_delete_taxonomy_recursive(db, taxonomy_id) ==
    With([db EXCEPT !.data_models =
             [m \in {x \in DOMAIN db.data_models :
                        db.data_models[x].taxonomy_id # Some(taxonomy_id)}
                 |-> db.data_models[m]]],
         LAMBDA without_models :
    With(DeleteChildren(without_models, Children(db.taxonomies, taxonomy_id)),
         LAMBDA without_children :
        [without_children EXCEPT !.taxonomies =
            [t \in DOMAIN without_children.taxonomies \ {taxonomy_id}
                |-> without_children.taxonomies[t]]]))
DeleteChildren(db, children) ==
    IF children = {} THEN db
    ELSE With(CHOOSE c \in children : TRUE, LAMBDA child :
            With(_delete_taxonomy_recursive(db, child), LAMBDA next :
                DeleteChildren(next, children \ {child})))

\* DELETE /taxonomy/{taxonomy_id}?force=...
delete_taxonomy(taxonomy_id, force) ==
    /\ TaxonomyFrame
    /\ UNCHANGED services
    /\ IF taxonomy_id \notin DOMAIN taxonomies
         THEN /\ response' = 404
              /\ UNCHANGED <<taxonomies, data_models>>
         ELSE IF /\ ~force
                 /\ \/ Children(taxonomies, taxonomy_id) # {}
                    \/ \E m \in DOMAIN data_models :
                          data_models[m].taxonomy_id = Some(taxonomy_id)
         THEN /\ response' = 400
              /\ UNCHANGED <<taxonomies, data_models>>
         ELSE /\ \E db \in {IF force
                              THEN _delete_taxonomy_recursive(
                                       [taxonomies |-> taxonomies,
                                        data_models |-> data_models], taxonomy_id)
                              ELSE [taxonomies |->
                                        [t \in DOMAIN taxonomies \ {taxonomy_id}
                                            |-> taxonomies[t]],
                                    data_models |-> data_models]} :
                   /\ taxonomies' = db.taxonomies
                   /\ data_models' = db.data_models
              /\ response' = 200

\* POST /data-models
create_data_model(data_model) ==
    /\ TaxonomyFrame
    /\ UNCHANGED <<services, taxonomies>>
    /\ IF data_model.service_id \notin services
         THEN /\ response' = 404
              /\ UNCHANGED data_models
         ELSE IF IsSet(data_model.taxonomy_id) /\ FirstById(taxonomies, data_model.taxonomy_id) = None
         THEN /\ response' = 404
              /\ UNCHANGED data_models
         ELSE IF \E m \in DOMAIN data_models :
                    /\ data_models[m].name = data_model.name
                    /\ data_models[m].service_id = data_model.service_id
         THEN /\ response' = 400
              /\ UNCHANGED data_models
         ELSE /\ NextRowId(data_models) <= MaxDataModels
              /\ data_models' =
                   (NextRowId(data_models) :> (data_model @@ [id |-> NextRowId(data_models)]))
                   @@ data_models
              /\ response' = 200

\* PUT /data-models/{model_id} with a body that sets taxonomy_id
update_data_model(model_id, update_data) ==
    /\ TaxonomyFrame
    /\ UNCHANGED <<services, taxonomies>>
    /\ IF model_id \notin DOMAIN data_models
         THEN /\ response' = 404
              /\ UNCHANGED data_models
         ELSE IF /\ "taxonomy_id" \in DOMAIN update_data
                 /\ IsSet(update_data.taxonomy_id)
                 /\ FirstById(taxonomies, update_data.taxonomy_id) = None
         THEN /\ response' = 404
              /\ UNCHANGED data_models
         ELSE /\ data_models' = [data_models EXCEPT ![model_id] =
                                    [key \in DOMAIN @ |->
                                        IF key \in DOMAIN update_data
                                          THEN update_data[key] ELSE @[key]]]
              /\ response' = 200

\* DELETE /data-models/{model_id}
delete_data_model(model_id) ==
    /\ TaxonomyFrame
    /\ UNCHANGED <<services, taxonomies>>
    /\ IF model_id \notin DOMAIN data_models
         THEN /\ response' = 404
              /\ UNCHANGED data_models
         ELSE /\ data_models' = [m \in DOMAIN data_models \ {model_id} |-> data_models[m]]
              /\ response' = 200

-----------------------------------------------------------------------------
(* OpenAPI parser: _resolve_schema_refs                                    *)

\* the frames Python allows the recursion before it raises RecursionError
RecursionLimit == 8

\* the words of the reference paths, as characters
W_components == <<"c", "o", "m", "p", "o", "n", "e", "n", "t", "s">>
W_schemas == <<"s", "c", "h", "e", "m", "a", "s">>
W_properties == <<"p", "r", "o", "p", "e", "r", "t", "i", "e", "s">>
W_type == <<"t", "y", "p", "e">>
W_Leaf == <<"L", "e", "a", "f">>
W_Node == <<"N", "o", "d", "e">>
W_Ping == <<"P", "i", "n", "g">>
W_Pong == <<"P", "o", "n", "g">>

\* ref_path.startswith(prefix)
StartsWith(s, prefix) ==
    Len(s) >= Len(prefix) /\ \A n \in 1..Len(prefix) : s[n] = prefix[n]

\* s.split("/"), the empty pieces kept; cur is the piece being read
RECURSIVE SplitSlash(_, _, _)
SplitSlash(s, n, cur) ==
    IF n > Len(s) THEN <<cur>>
    ELSE IF s[n] = "/" THEN <<cur>> \o SplitSlash(s, n + 1, <<>>)
    ELSE SplitSlash(s, n + 1, Append(cur, s[n]))

\* the dict key a piece of the path spells
KeyOf(part) ==
    CASE part = W_components -> "components"
      [] part = W_schemas -> "schemas"
      [] part = W_properties -> "properties"
      [] part = W_type -> "type"
      [] part = W_Leaf -> "Leaf"
      [] part = W_Node -> "Node"
      [] part = W_Ping -> "Ping"
      [] part = W_Pong -> "Pong"
      [] OTHER -> "?"

\* lines 268-270: resolved = resolved.get(part, {}) for every part
RECURSIVE FollowParts(_, _, _)
FollowParts(resolved, path_parts, n) ==
    IF n > Len(path_parts) THEN Ok(resolved)
    ELSE IF ~IsDict(resolved) THEN Raise("AttributeError")
    ELSE FollowParts(IF KeyOf(path_parts[n]) \in DOMAIN resolved.d
                       THEN resolved.d[KeyOf(path_parts[n])] ELSE EmptyDict,
                     path_parts, n + 1)

\* the exception of the first member that raises, or None
FirstRaised(outs, keys) ==
    IF \A k \in keys : ~outs[k].exc THEN None
    ELSE Some(outs[CHOOSE k \in keys : outs[k].exc].val)

\* _resolve_schema_refs(schema, spec), entered with `depth` frames of it on
\* the stack
RECURSIVE _resolve_schema_refs(_, _, _)
_resolve_schema_refs(schema, spec, depth) ==
    IF depth > RecursionLimit THEN Raise("RecursionError")
    ELSE IF IsDict(schema) THEN
        IF "$ref" \in DOMAIN schema.d THEN
            With(schema.d["$ref"], LAMBDA ref_path :
                IF ~IsStr(ref_path) THEN Raise("AttributeError")
                ELSE IF StartsWith(ref_path.s, <<"#", "/">>) THEN
                    With(FollowParts(spec, SplitSlash(SubSeq(ref_path.s, 3, Len(ref_path.s)),
                                                      1, <<>>), 1),
                         LAMBDA resolved :
                        IF resolved.exc THEN resolved
                        ELSE _resolve_schema_refs(resolved.val, spec, depth + 1))
                ELSE Ok(schema))
        ELSE With([key \in DOMAIN schema.d |->
                      _resolve_schema_refs(schema.d[key], spec, depth + 1)],
                  LAMBDA outs :
                With(FirstRaised(outs, DOMAIN outs), LAMBDA raised :
                    IF raised # None THEN Raise(raised[1])
                    ELSE Ok(JDict([key \in DOMAIN outs |-> outs[key].val]))))
    ELSE IF IsList(schema) THEN
        With([n \in DOMAIN schema.l |-> _resolve_schema_refs(schema.l[n], spec, depth + 1)],
             LAMBDA outs :
            With(FirstRaised(outs, DOMAIN outs), LAMBDA raised :
                IF raised # None THEN Raise(raised[1])
                ELSE Ok(JList([n \in DOMAIN outs |-> outs[n].val]))))
    ELSE Ok(schema)

-----------------------------------------------------------------------------
(* Field report: analyze_common_fields_across_services                     *)

\* the characters of a field name of the model's schemas
Chars(field) ==
    IF Len(field) = 1 THEN <<field>>
    ELSE CASE field = "id" -> W_id
           [] field = "name" -> W_name
           [] field = "email" -> W_email
           [] field = "total" -> W_total
           [] field = "status" -> W_status
           [] field = "plan" -> <<"p", "l", "a", "n">>
           [] field = "lines" -> <<"l", "i", "n", "e", "s">>
           [] field = "lines[].sku" ->
                <<"l", "i", "n", "e", "s", "[", "]", ".", "s", "k", "u">>

\* one order of the members of a set
RECURSIVE Enum(_)
Enum(S) ==
    With(S, LAMBDA T :
        IF T = {} THEN <<>>
        ELSE With(CHOOSE x \in T : TRUE, LAMBDA x : <<x>> \o Enum(T \ {x})))

Reverse(s) == [n \in 1..Len(s) |-> s[Len(s) + 1 - n]]

\* `for field in fields`: a set is iterated in an order the program does not
\* fix; backwards tells which of two orders this run takes
IterationOrder(fields, backwards) ==
    IF backwards THEN Reverse(Enum(fields)) ELSE Enum(fields)

\* the (service, endpoint) pairs in the order of the loops of lines 433-436
RECURSIVE Visits(_, _, _)
Visits(service_rows, endpoint_rows, n) ==
    IF n > Len(service_rows) THEN <<>>
    ELSE SelectSeq([k \in 1..Len(endpoint_rows) |->
                       [service |-> service_rows[n], endpoint |-> endpoint_rows[k]]],
                   LAMBDA v : v.endpoint.service_id = v.service.id)
         \o Visits(service_rows, endpoint_rows, n + 1)

\* field_analysis: the keys in insertion order and the entry of every key
NoFields == [keys |-> <<>>, data |-> [k \in {} |-> k]]

\* a plausible slip: a field counts once per service, not once per endpoint
AddFieldPerService(acc, field, visit) ==
    With(IF field \in DOMAIN acc.data
           THEN acc.data[field]
           ELSE [frequency |-> 0, services |-> {}, endpoints |-> {}, field_types |-> {}],
         LAMBDA entry :
        [keys |-> IF field \in DOMAIN acc.data THEN acc.keys ELSE Append(acc.keys, field),
         data |-> (field :>
                     [frequency |-> IF visit.service.name \in entry.services
                                      THEN entry.frequency ELSE entry.frequency + 1,
                      services |-> entry.services \cup {visit.service.name},
                      endpoints |-> entry.endpoints \cup {Label(visit.endpoint)},
                      field_types |-> entry.field_types
                                        \cup {_infer_field_type(Chars(field), visit.endpoint)}])
                  @@ acc.data])

\* lines 440-447 for one field of one endpoint
AddField(acc, field, visit) ==
    With(IF field \in DOMAIN acc.data
           THEN acc.data[field]
           ELSE [frequency |-> 0, services |-> {}, endpoints |-> {}, field_types |-> {}],
         LAMBDA entry :
        [keys |-> IF field \in DOMAIN acc.data THEN acc.keys ELSE Append(acc.keys, field),
         data |-> (field :>
                     [frequency |-> entry.frequency + 1,
                      services |-> entry.services \cup {visit.service.name},
                      endpoints |-> entry.endpoints \cup {Label(visit.endpoint)},
                      field_types |-> entry.field_types
                                        \cup {_infer_field_type(Chars(field), visit.endpoint)}])
                  @@ acc.data])

\* the loop of line 439 over the fields of one endpoint
RECURSIVE AddFields(_, _, _, _)
AddFields(acc, order, visit, n) ==
    IF n > Len(order) THEN acc
    ELSE With(AddField(acc, order[n], visit), LAMBDA next :
             AddFields(next, order, visit, n + 1))

\* the loops of lines 433-447; an exception of the extractor ends them
RECURSIVE Accumulate(_, _, _, _)
Accumulate(acc, visits, n, backwards) ==
    IF n > Len(visits) THEN Ok(acc)
    ELSE With(_extract_fields_from_endpoint(visits[n].endpoint), LAMBDA fields :
            IF fields.exc THEN Raise(acc)
            ELSE With(AddFields(acc, IterationOrder(fields.val, backwards), visits[n], 1),
                      LAMBDA next : Accumulate(next, visits, n + 1, backwards)))

\* lines 450-459
ResultRows(acc) ==
    [n \in 1..Len(acc.keys) |->
        With(acc.data[acc.keys[n]], LAMBDA data :
            [field_name |-> acc.keys[n],
             frequency |-> data.frequency,
             services |-> data.services,
             endpoints |-> data.endpoints,
             field_types |-> data.field_types,
             cross_service |-> Cardinality(data.services) > 1])]

\* line 462: result.sort(key=frequency, reverse=True), a stable sort
SortByFrequency(result) ==
    With([n \in DOMAIN result |->
            1 + Cardinality({k \in DOMAIN result :
                                \/ result[k].frequency > result[n].frequency
                                \/ result[k].frequency = result[n].frequency /\ k < n})],
         LAMBDA place :
        [p \in DOMAIN result |-> result[CHOOSE n \in DOMAIN result : place[n] = p]])

TopFields == 20

\* lines 423-469 on the service and endpoint rows of the database
analyze_common_fields_across_services(service_rows, endpoint_rows, backwards) ==
    With(Accumulate(NoFields, Visits(service_rows, endpoint_rows, 1), 1, backwards),
         LAMBDA field_analysis :
        IF field_analysis.exc THEN Raise(<<>>)
        ELSE With(SortByFrequency(ResultRows(field_analysis.val)), LAMBDA result :
                Ok([total_unique_fields |-> Len(result),
                    cross_service_fields |->
                        Cardinality({n \in DOMAIN result : result[n].cross_service}),
                    most_common_fields |-> SubSeq(result, 1, Min(TopFields, Len(result))),
                    field_analysis |-> result])))

-----------------------------------------------------------------------------
(* The pair scorer and the field extractor applied to drawn inputs         *)

\* endpoint records handed to the scorer: every payload under two ids
PairIds == {1, 2}
PairPayloads == Payloads \cup {DeleteUser, GetOrders, PatchUser, FindUser, MoveAccount}
PairInputs == {p @@ [id |-> i, service_id |-> 1] : p \in PairPayloads, i \in PairIds}

\* schema values handed to the extractor, well formed and not
InnerB == JDict([properties |-> JDict([b |-> Leaf])])
SchemaAtoms ==
    {JNull, JStr(""), JStr("x"), JList(<<>>), JList(<<JStr("a")>>), EmptyDict, Leaf,
     InnerB, UserInput, OrderSchema}
SchemaWrap(v) ==
    {JDict([properties |-> v]),
     JDict([properties |-> JDict([a |-> v])]),
     JDict([items |-> v]),
     JDict([allOf |-> v]),
     JDict([oneOf |-> JList(<<v>>)]),
     JDict([anyOf |-> JList(<<Leaf, v>>), properties |-> JDict([b |-> Leaf])])}
SchemaLevel1 == SchemaAtoms \cup UNION {SchemaWrap(v) : v \in SchemaAtoms}
SchemaInputs == SchemaLevel1 \cup UNION {SchemaWrap(v) : v \in SchemaLevel1}
PrefixInputs == {"", "p"}

StoreIdle ==
    /\ services = {}
    /\ service_counter = 1
    /\ endpoints = <<>>
    /\ endpoint_counter = 1
    /\ relationships = {}
    /\ pc = "idle"
    /\ scanned = <<>>
    /\ pi = 0
    /\ pj = 0
    /\ pending = <<>>
    /\ results = NoResults
    /\ before_run = NoRun
    /\ response = 0
    /\ data_models = <<>>
    /\ data_model_counter = 1
    /\ taxonomies = <<>>

InitPair ==
    /\ StoreIdle
    /\ \E a \in PairInputs, b \in PairInputs :
          call = [fn |-> "pair_args", a |-> a, b |-> b]

\* scorePair in both argument orders
ScorePair ==
    /\ call.fn = "pair_args"
    /\ call' = [fn |-> "pair", a |-> call.a, b |-> call.b,
                out |-> _analyze_endpoint_pair(call.a, call.b),
                rev |-> _analyze_endpoint_pair(call.b, call.a)]
    /\ UNCHANGED storeVars

NextPair == ScorePair

SpecPair == InitPair /\ [][NextPair]_vars

InitExtract ==
    /\ StoreIdle
    /\ \E schema \in SchemaInputs, prefix \in PrefixInputs :
          call = [fn |-> "extract_args", schema |-> schema, prefix |-> prefix]

ExtractCall ==
    /\ call.fn = "extract_args"
    /\ call' = [fn |-> "extract", schema |-> call.schema, prefix |-> call.prefix,
                out |-> _extract_fields_from_schema(call.schema, call.prefix)]
    /\ UNCHANGED storeVars

NextExtract == ExtractCall

SpecExtract == InitExtract /\ [][NextExtract]_vars

\* paths and methods handed to the path functions
PRoot == <<"/">>
PUsersX == <<"/", "u", "s", "e", "r", "s", "/", "{", "x", "}">>
PUser == <<"/", "u", "s", "e", "r">>
PAbc == <<"/", "a", "b", "c">>
PAbcd == <<"/", "a", "b", "c", "d">>
PIdOnly == <<"/", "{", "i", "d", "}">>
PDouble == <<"/", "/", "u", "s", "e", "r", "s">>
PathInputs ==
    {PRoot, PUsers, PUsersId, PUsersX, PUsersUp, PUser, POrders, PUserOrders,
     PAbc, PAbcd, PIdOnly, PDouble}
MethodInputs == {"GET", "DELETE", "HEAD"}

InitPath ==
    /\ StoreIdle
    /\ \E path1 \in PathInputs, path2 \in PathInputs,
          method1 \in MethodInputs, method2 \in MethodInputs :
          call = [fn |-> "path_args", path1 |-> path1, path2 |-> path2,
                  method1 |-> method1, method2 |-> method2]

\* the path functions on one pair of paths and methods
PathCall ==
    /\ call.fn = "path_args"
    /\ call' = [fn |-> "path", path1 |-> call.path1, path2 |-> call.path2,
                method1 |-> call.method1, method2 |-> call.method2,
                clean1 |-> _clean_path(call.path1),
                clean2 |-> _clean_path(call.path2),
                similarity |-> _calculate_path_similarity(call.path1, call.path2),
                reverse |-> _calculate_path_similarity(call.path2, call.path1),
                crud |-> _analyze_crud_relationship(
                             [path |-> call.path1, method |-> call.method1],
                             [path |-> call.path2, method |-> call.method2])]
    /\ UNCHANGED storeVars

NextPath == PathCall

SpecPath == InitPath /\ [][NextPath]_vars

\* requests to the endpoint handlers: two create bodies, and update bodies
\* that send the path, the method, both or neither
CreateBodies == {GetUser, PostUser}
UpdatePaths == {PUsers, PUsersId}
UpdateMethods == {"GET", "POST"}
UpdateBodies ==
    {NoAttrs}
        \cup {[path |-> p] : p \in UpdatePaths}
        \cup {[method |-> m] : m \in UpdateMethods}
        \cup {[path |-> p, method |-> m] : p \in UpdatePaths, m \in UpdateMethods}

NextEndpoints ==
    \/ create_service
    \/ \E s \in 1..MaxServices : delete_service(s)
    \/ \E s \in 1..MaxServices, p \in CreateBodies : create_endpoint(s, p)
    \/ \E e \in 1..MaxEndpoints, u \in UpdateBodies : update_endpoint(e, u)
    \/ \E e \in 1..MaxEndpoints : delete_endpoint(e)

SpecEndpoints == Init /\ [][NextEndpoints]_vars

\* the test files of the startup import: the endpoints and the component
\* schemas a file gives
FileEndpoints == {<<>>, <<GetUser>>, <<GetUser, PostUser>>}
FileModels ==
    {<<>>, <<[name |-> "User"]>>, <<[name |-> "User"], [name |-> "Order"]>>}

NextCascade ==
    \/ \E endpoints_data \in FileEndpoints, models_data \in FileModels :
          startup_event(endpoints_data, models_data)
    \/ create_service
    \/ \E s \in 1..MaxServices : delete_service(s)
    \/ \E s \in 1..MaxServices, p \in CreateBodies : create_endpoint(s, p)
    \/ \E e \in 1..MaxEndpoints : delete_endpoint(e)

SpecCascade == Init /\ [][NextCascade]_vars

\* requests to the taxonomy router
TaxonomyNames == {"a", "b"}
ParentIds == {None} \cup {Some(n) : n \in 0..MaxTaxonomies}
TaxonomyBodies == {[name |-> n, parent_id |-> p] : n \in TaxonomyNames, p \in ParentIds}
TaxonomyUpdates ==
    {[name |-> n] : n \in TaxonomyNames}
        \cup {[parent_id |-> p] : p \in ParentIds}
        \cup {[name |-> n, parent_id |-> p] : n \in TaxonomyNames, p \in ParentIds}

NextTaxonomy ==
    \/ \E taxonomy \in TaxonomyBodies : create_taxonomy(taxonomy)
    \/ \E t \in 1..MaxTaxonomies, update_data \in TaxonomyUpdates :
          update_taxonomy(t, update_data)
    \/ \E t \in 1..MaxTaxonomies, force \in BOOLEAN : delete_taxonomy(t, force)

SpecTaxonomy == Init /\ [][NextTaxonomy]_vars

\* requests to the taxonomy router and to its data model handlers: the
\* taxonomies have one name and are moved, not renamed
CatalogBodies == {[name |-> "a", parent_id |-> p] : p \in ParentIds}
CatalogUpdates == {[parent_id |-> p] : p \in ParentIds}
DataModelBodies ==
    {[name |-> "User", service_id |-> 1, taxonomy_id |-> p] : p \in ParentIds}
DataModelUpdates == {[taxonomy_id |-> p] : p \in ParentIds}

NextCatalog ==
    \/ create_service
    \/ \E taxonomy \in CatalogBodies : create_taxonomy(taxonomy)
    \/ \E t \in 1..MaxTaxonomies, update_data \in CatalogUpdates :
          update_taxonomy(t, update_data)
    \/ \E t \in 1..MaxTaxonomies, force \in BOOLEAN : delete_taxonomy(t, force)
    \/ \E data_model \in DataModelBodies : create_data_model(data_model)
    \/ \E m \in 1..MaxDataModels, update_data \in DataModelUpdates :
          update_data_model(m, update_data)
    \/ \E m \in 1..MaxDataModels : delete_data_model(m)

SpecCatalog == Init /\ [][NextCatalog]_vars

\* specification documents and schemas handed to the reference resolution
Ref(path) == JDict("$ref" :> JStr(path))
RefPrefix == <<"#", "/">> \o W_components \o <<"/">> \o W_schemas \o <<"/">>
RefLeaf == RefPrefix \o W_Leaf
RefNode == RefPrefix \o W_Node
RefPing == RefPrefix \o W_Ping
RefMissing == RefPrefix \o <<"X">>
RefDeep == RefPrefix \o W_Leaf \o <<"/">> \o W_type \o <<"/">> \o W_type
RefExternal == <<"x", ".", "j", "s", "o", "n", "#", "/">> \o W_Leaf
RefPaths == {RefLeaf, RefNode, RefPing, RefMissing, RefDeep, RefExternal}

\* components.schemas of a document: Leaf has no reference, Node refers to
\* Leaf or to itself, Ping and Pong refer to Leaf or to each other
Document(node_next, ping_other, pong_other) ==
    JDict([components |-> JDict([schemas |-> JDict(
        [Leaf |-> Leaf,
         Node |-> Obj([next |-> Ref(node_next)]),
         Ping |-> Obj([other |-> Ref(ping_other)]),
         Pong |-> JDict([items |-> Ref(pong_other)])])])])
RefPong == RefPrefix \o W_Pong
Documents ==
    {Document(RefLeaf, RefLeaf, RefLeaf),
     Document(RefNode, RefLeaf, RefLeaf),
     Document(RefLeaf, RefPong, RefPing),
     Document(RefLeaf, RefPong, RefLeaf)}
ResolveSchemas ==
    {JNull, JStr(<<"x">>), Leaf, UserSchema, JDict("$ref" :> JNull)}
        \cup {Ref(p) : p \in RefPaths}
        \cup {Obj([a |-> Ref(p)]) : p \in RefPaths}
        \cup {JDict([items |-> Ref(p)]) : p \in RefPaths}
        \cup {JDict([allOf |-> JList(<<Leaf, Ref(p)>>)]) : p \in RefPaths}

InitResolve ==
    /\ StoreIdle
    /\ \E schema \in ResolveSchemas, spec \in Documents :
          call = [fn |-> "resolve_args", schema |-> schema, spec |-> spec]

ResolveCall ==
    /\ call.fn = "resolve_args"
    /\ call' = [fn |-> "resolve", schema |-> call.schema, spec |-> call.spec,
                out |-> _resolve_schema_refs(call.schema, call.spec, 1)]
    /\ UNCHANGED storeVars

NextResolve == ResolveCall

SpecResolve == InitResolve /\ [][NextResolve]_vars

\* field names handed to the type inference, as character sequences
NamePrefixes == {<<>>, <<"u", "s", "e", "r">>, <<"U", "S", "E", "R", "_">>, <<"x", "_">>}
NameStems ==
    {<<>>, W_name, W_email, W_date, W_status, W_total, W_title, W_state, W_count,
     W_timestamp, <<"p", "l", "a", "n">>}
NameSuffixes ==
    {<<>>, W_id, <<"I", "d">>, <<"I", "D">>, <<"s">>, <<"_">> \o W_email, <<"_">> \o W_name}
NameInputs == {p \o s \o x : p \in NamePrefixes, s \in NameStems, x \in NameSuffixes}

InitInfer ==
    /\ StoreIdle
    /\ \E field_name \in NameInputs : call = [fn |-> "infer_args", field_name |-> field_name]

InferCall ==
    /\ call.fn = "infer_args"
    /\ call' = [fn |-> "infer", field_name |-> call.field_name,
                out |-> _infer_field_type(call.field_name, JNull)]
    /\ UNCHANGED storeVars

NextInfer == InferCall

SpecInfer == InitInfer /\ [][NextInfer]_vars

\* corpora handed to the field report: two services, up to MaxReportEndpoints
\* endpoints, no two endpoints of a service with the same path and method
MaxReportEndpoints == 3
WideSchema ==
    Obj([n \in {"a", "b", "c", "d", "e", "f", "g", "h", "i", "j", "k", "l", "m", "n",
                "o", "p", "q", "r", "s", "id", "name"} |-> Leaf])
GetWide == Payload(PUserOrders, "GET", JNull, WideSchema, EmptyDict)
ReportPayloads == {GetUser, PostUser, GetOrders, BadOrder, GetWide}
ServiceNames == {<<"users", "orders">>, <<"users", "users">>}
ReportEndpointRows ==
    {rows \in UNION {[1..n -> ReportPayloads \X {1, 2}] : n \in 0..MaxReportEndpoints} :
        \A j \in DOMAIN rows, k \in DOMAIN rows :
            (/\ j # k
             /\ rows[j][2] = rows[k][2]
             /\ rows[j][1].path = rows[k][1].path) => rows[j][1].method # rows[k][1].method}

InitReport ==
    /\ StoreIdle
    /\ \E names \in ServiceNames, rows \in ReportEndpointRows :
          call = [fn |-> "report_args",
                  services |-> [n \in 1..2 |-> [id |-> n, name |-> names[n]]],
                  endpoints |-> [n \in DOMAIN rows |->
                                    rows[n][1] @@ [id |-> n, service_id |-> rows[n][2]]]]

\* GET /relationships/analysis/common-fields
ReportCall ==
    /\ call.fn = "report_args"
    /\ \E backwards \in BOOLEAN :
          call' = [fn |-> "report", services |-> call.services,
                   endpoints |-> call.endpoints,
                   out |-> analyze_common_fields_across_services(
                               call.services, call.endpoints, backwards)]
    /\ UNCHANGED storeVars

NextReport == ReportCall

SpecReport == InitReport /\ [][NextReport]_vars

-----------------------------------------------------------------------------
(* Properties of the corpus scan                                           *)

\* what a stored row says, without the id the database gave it
Content(r) ==
    [source |-> r.source_endpoint_id, target |-> r.target_endpoint_id,
     type |-> r.relationship_type, score |-> r.similarity_score]
StoredContent(rows) == {Content(r) : r \in rows}

PairsOf(list) == {ij \in (1..Len(list)) \X (1..Len(list)) : ij[1] < ij[2]}
PairRaises(list) ==
    \E ij \in PairsOf(list) : _analyze_endpoint_pair(list[ij[1]], list[ij[2]]).exc
\* the candidates at or above the threshold, over every pair of the list
Qualifying(list) ==
    {c \in PairsOf(list) \X {COMMON_FIELDS, SIMILAR_SCHEMA, DATA_FLOW} :
        LET rel == _analyze_endpoint_pair(list[c[1][1]], list[c[1][2]]).val
        IN  c[2] \in DOMAIN rel /\ FGe(rel[c[2]].score, similarity_threshold)}
QualifyingContent(list) ==
    {[source |-> list[c[1][1]].id, target |-> list[c[1][2]].id, type |-> c[2],
      score |-> _analyze_endpoint_pair(list[c[1][1]], list[c[1][2]]).val[c[2]].score]
        : c \in Qualifying(list)}
IsRebuilt(rows, list) ==
    /\ ~PairRaises(list)
    /\ StoredContent(rows) = QualifyingContent(list)
    /\ Cardinality(rows) = Cardinality(Qualifying(list))

\* the step on which analyze_all_relationships returns its summary
Completes == pc = "scan" /\ pc' = "idle" /\ response' = 200
\* the last request was an analysis that returned
JustAnalyzed == pc = "idle" /\ results # NoResults

\* C1: a run interrupted at any point leaves in the store either the rows
\* that were there when it started or the fully rebuilt rows.
C1_CrashAtomic ==
    [][Crash => (relationships' = before_run.rows \/ IsRebuilt(relationships', scanned))]_vars

\* C2: when a run completes, the stored rows are exactly the candidates at or
\* above the threshold computed from the endpoint list the run read, one row
\* each, whatever was stored before.
C2_FullRecompute ==
    [][Completes => IsRebuilt(relationships', scanned)]_vars

\* a completed run replaced an older, different, non-empty set of rows
C2_Witness ==
    /\ JustAnalyzed
    /\ relationships # {}
    /\ before_run.rows # {}
    /\ StoredContent(before_run.rows) # StoredContent(relationships)

\* C3: every persisted relationship has a score of at least the threshold,
\* after any sequence of runs and single deletions.
C3_Threshold ==
    \A r \in relationships : FGe(r.similarity_score, similarity_threshold)

\* row 1 was deleted and row 2, whose score is exactly the threshold, remains
C3_Witness ==
    /\ pc = "idle"
    /\ response = 200
    /\ \E r \in relationships : r.id = 2 /\ r.similarity_score = similarity_threshold
    /\ ~ \E r \in relationships : r.id = 1

\* C4: after a run every stored row has source = endpoints[i].id and
\* target = endpoints[j].id for some i < j of the list, source and target
\* differ, and a pair of endpoints has at most one row of each type.
C4_OrderedPairs ==
    [][Completes =>
         /\ \A r \in relationships' :
               /\ \E ij \in PairsOf(scanned) :
                     /\ r.source_endpoint_id = scanned[ij[1]].id
                     /\ r.target_endpoint_id = scanned[ij[2]].id
               /\ r.source_endpoint_id # r.target_endpoint_id
         /\ \A r1, r2 \in relationships' :
               ( /\ {r1.source_endpoint_id, r1.target_endpoint_id}
                      = {r2.source_endpoint_id, r2.target_endpoint_id}
                 /\ r1.relationship_type = r2.relationship_type ) => r1 = r2]_vars

\* a completed run stored rows for two different pairs of endpoints
C4_Witness ==
    /\ JustAnalyzed
    /\ \E r1, r2 \in relationships :
          <<r1.source_endpoint_id, r1.target_endpoint_id>>
             # <<r2.source_endpoint_id, r2.target_endpoint_id>>

\* C5: a run that directly follows a completed run leaves the same rows
\* (pairs, types, scores, and as many of them) and returns the same summary.
C5_Idempotent ==
    [][(Completes /\ before_run.results # NoResults) =>
         /\ StoredContent(relationships') = StoredContent(before_run.rows)
         /\ Cardinality(relationships') = Cardinality(before_run.rows)
         /\ results' = before_run.results]_vars

\* two runs in a row completed and left rows
C5_Witness ==
    /\ JustAnalyzed
    /\ before_run.results # NoResults
    /\ results.data_flow_patterns > 0
    /\ results.common_fields_found > 0

\* C9: the summary agrees with the store: the endpoints scanned, the rows
\* stored, and their number by type, which add up to the total.
C9_SummaryConsistent ==
    [][Completes =>
         /\ results'.total_endpoints = Len(scanned)
         /\ results'.total_endpoints = Cardinality(DOMAIN endpoints')
         /\ results'.relationships_created = Cardinality(relationships')
         /\ results'.relationships_created =
              results'.common_fields_found + results'.similar_schemas
                 + results'.data_flow_patterns
         /\ results'.common_fields_found =
              Cardinality({r \in relationships' : r.relationship_type = COMMON_FIELDS})
         /\ results'.similar_schemas =
              Cardinality({r \in relationships' : r.relationship_type = SIMILAR_SCHEMA})
         /\ results'.data_flow_patterns =
              Cardinality({r \in relationships' : r.relationship_type = DATA_FLOW})
         /\ 2 * results'.relationships_created
               <= 3 * Len(scanned) * (Len(scanned) - 1)]_vars

\* a completed run returned a summary with rows of all three types
C9_Witness ==
    /\ JustAnalyzed
    /\ results.common_fields_found > 0
    /\ results.similar_schemas > 0
    /\ results.data_flow_patterns > results.similar_schemas

\* C11: the scan always completes: whatever the shape of the endpoints'
\* schemas and parameters, no pair aborts the run and no analyze request
\* ends with an error.
C11_ScanCompletes == [][pc = "scan" => response' # 500]_vars

\* a graph view has just been answered; the store is the one it was taken of
Viewed == call.fn = "get_relationship_graph"

\* C12: for a corpus of 0 or 1 endpoints the graph view is well defined and
\* reports density 0, 0 connected components and an empty edge list, and an
\* empty node list for 0 endpoints.
C12_DegenerateGraph ==
    (Viewed /\ Cardinality(DOMAIN endpoints) <= 1) =>
        /\ ~call.out.exc
        /\ call.out.val.edges = <<>>
        /\ call.out.val.metrics.density = Zero
        /\ call.out.val.metrics.connected_components = 0
        /\ (DOMAIN endpoints = {} => call.out.val.nodes = <<>>)

\* the edge entry the view is to hold for a stored relationship
EdgeOf(r) ==
    [source |-> r.source_endpoint_id,
     target |-> r.target_endpoint_id,
     relationship_type |-> r.relationship_type,
     similarity_score |-> r.similarity_score,
     common_fields |-> r.common_fields]

\* C19: the graph view contains one node for every endpoint in the store and
\* one edge for every stored relationship, each edge carrying that
\* relationship's source, target, type, score and common fields; a pair
\* related by several relationship types has as many edges as it has stored
\* relationships.
C19_GraphContents ==
    Viewed =>
        /\ ~call.out.exc
        /\ Len(call.out.val.nodes) = Cardinality(DOMAIN endpoints)
        /\ {call.out.val.nodes[n].id : n \in DOMAIN call.out.val.nodes} = DOMAIN endpoints
        /\ Len(call.out.val.edges) = Cardinality(relationships)
        /\ \A r \in relationships :
              \E n \in DOMAIN call.out.val.edges : call.out.val.edges[n] = EdgeOf(r)

\* the endpoint pairs that have at least one stored relationship
RelatedPairs ==
    {{r.source_endpoint_id, r.target_endpoint_id} : r \in relationships}
        \cap SUBSET DOMAIN endpoints

\* the endpoints joined to the endpoints of S by a chain of related pairs
RECURSIVE Component(_)
Component(S) ==
    With(S \cup UNION {p \in RelatedPairs : p \cap S # {}}, LAMBDA T :
        IF T = S THEN S ELSE Component(T))

\* C20: the graph metrics are those of the undirected simple graph whose
\* vertices are all endpoints and whose edges are the endpoint pairs having
\* at least one stored relationship: connected_components is its number of
\* connected components and density = 2*|E| / (|V|*(|V|-1)), which lies in
\* [0,1].
C20_GraphMetrics ==
    Viewed =>
        /\ ~call.out.exc
        /\ call.out.val.metrics.connected_components
             = Cardinality({Component({e}) : e \in DOMAIN endpoints})
        /\ Cardinality(DOMAIN endpoints) > 1 =>
             call.out.val.metrics.density
               = Frac(2 * Cardinality(RelatedPairs),
                      Cardinality(DOMAIN endpoints) * (Cardinality(DOMAIN endpoints) - 1))
        /\ FLe(Zero, call.out.val.metrics.density)
        /\ FLe(call.out.val.metrics.density, One)

\* the degree of an endpoint in the graph of the related pairs
PairDegree(e) == Cardinality({p \in RelatedPairs : e \in p})

\* C21: the most_connected list of the graph view has min(5, |V|) entries in
\* order of non-increasing centrality, each centrality equals
\* degree(node) / (|V| - 1) in the collapsed simple graph, and no node
\* outside the list has a strictly higher centrality than a node inside it.
C21_MostConnected ==
    Viewed =>
        /\ ~call.out.exc
        /\ With(call.out.val.most_connected, LAMBDA most :
           With(Cardinality(DOMAIN endpoints), LAMBDA n :
              /\ Len(most) = (IF n < 5 THEN n ELSE 5)
              /\ \A k \in 1..(Len(most) - 1) :
                    FGe(most[k].centrality_score, most[k + 1].centrality_score)
              /\ \A k \in DOMAIN most :
                    /\ most[k].endpoint_id \in DOMAIN endpoints
                    /\ n > 1 => most[k].centrality_score
                                  = Frac(PairDegree(most[k].endpoint_id), n - 1)
              /\ \A e \in DOMAIN endpoints \ {most[k].endpoint_id : k \in DOMAIN most} :
                    \A k \in DOMAIN most :
                        n > 1 => FLe(Frac(PairDegree(e), n - 1), most[k].centrality_score)))

StatisticsViewed == call.fn = "get_relationship_statistics"

\* the pairs of stored endpoints
PairCount == (Cardinality(DOMAIN endpoints) * (Cardinality(DOMAIN endpoints) - 1)) \div 2

\* C24: the statistics view returns relationship_coverage =
\* total_relationships / max(N*(N-1)/2, 1) * 100 over all relationship rows,
\* uncapped (it exceeds 100 when a pair holds several relationship types).
C24_Coverage ==
    StatisticsViewed =>
        /\ ~call.out.exc
        /\ call.out.val.relationship_coverage
             = Frac(Cardinality(relationships) * 100, IF PairCount > 1 THEN PairCount ELSE 1)

-----------------------------------------------------------------------------
(* Properties of the endpoint handlers                                     *)

\* no two rows of one service with the same path and method
Unique(rows) ==
    \A a \in DOMAIN rows, b \in DOMAIN rows :
        (a # b /\ rows[a].service_id = rows[b].service_id)
            => ~(rows[a].path = rows[b].path /\ rows[a].method = rows[b].method)

\* C25: after any sequence of create_endpoint, update_endpoint and
\* delete_endpoint requests no two stored endpoints of a service share path
\* and method, so no request that would produce such a pair succeeds; a
\* request answered with 400 leaves the store as it was.
C25_EndpointUniqueness ==
    /\ [](Unique(endpoints))
    /\ [][response' = 400 =>
            UNCHANGED <<services, service_counter, endpoints, endpoint_counter,
                        relationships>>]_vars

\* a request was rejected in a store where two endpoints of a service differ
\* in the method only
C25_Witness ==
    /\ response = 400
    /\ \E a \in DOMAIN endpoints, b \in DOMAIN endpoints :
          /\ a # b
          /\ endpoints[a].service_id = endpoints[b].service_id
          /\ endpoints[a].path = endpoints[b].path
          /\ endpoints[a].method # endpoints[b].method

\* C26: in every reachable store state every stored endpoint and every
\* stored data model belongs to a stored service: delete_service removes the
\* service together with all its endpoints and data models.
C26_CascadeDelete ==
    /\ \A e \in DOMAIN endpoints : endpoints[e].service_id \in services
    /\ \A m \in DOMAIN data_models : data_models[m].service_id \in services

-----------------------------------------------------------------------------
(* Properties of the taxonomy router                                       *)

\* following parent_id from t ends at a taxonomy whose parent_id is null
RECURSIVE ReachesRoot(_, _, _)
ReachesRoot(table, t, seen) ==
    IF table[t].parent_id = None THEN TRUE
    ELSE With(table[t].parent_id[1], LAMBDA p :
            IF p \notin DOMAIN table \/ p \in seen THEN FALSE
            ELSE ReachesRoot(table, p, seen \cup {t}))

\* C27: the taxonomy hierarchy is acyclic in every reachable state: following
\* parent_id from any taxonomy reaches a root, a taxonomy whose parent_id is
\* null, in finitely many steps.
C27_Acyclic == \A t \in DOMAIN taxonomies : ReachesRoot(taxonomies, t, {t})

\* C28: level and path agree with the tree in every reachable state: a root
\* has level 0 and path = name, and a taxonomy with parent p has level
\* p.level + 1 and path p.path + "/" + name, the descendants of a moved
\* taxonomy included.
C28_LevelAndPath ==
    \A t \in DOMAIN taxonomies :
        With(taxonomies[t], LAMBDA taxonomy :
            IF taxonomy.parent_id = None
              THEN taxonomy.level = 0 /\ taxonomy.path = taxonomy.name
              ELSE taxonomy.parent_id[1] \in DOMAIN taxonomies =>
                     With(taxonomies[taxonomy.parent_id[1]], LAMBDA p :
                         /\ taxonomy.level = p.level + 1
                         /\ taxonomy.path = p.path \o "/" \o taxonomy.name))

\* C29: no dangling reference in any reachable state: every non-null
\* parent_id of a taxonomy and every non-null taxonomy_id of a data model is
\* the id of a stored taxonomy.
C29_NoDangling ==
    /\ \A t \in DOMAIN taxonomies :
          taxonomies[t].parent_id # None => taxonomies[t].parent_id[1] \in DOMAIN taxonomies
    /\ \A m \in DOMAIN data_models :
          data_models[m].taxonomy_id # None
              => data_models[m].taxonomy_id[1] \in DOMAIN taxonomies

-----------------------------------------------------------------------------
(* Properties of the reference resolution                                  *)

ResolveReturned == call.fn = "resolve"

\* no internal reference is left anywhere in the tree
RECURSIVE Materialized(_)
Materialized(j) ==
    IF IsDict(j)
      THEN /\ "$ref" \in DOMAIN j.d =>
                ~(IsStr(j.d["$ref"]) /\ StartsWith(j.d["$ref"].s, <<"#", "/">>))
           /\ \A key \in DOMAIN j.d : Materialized(j.d[key])
    ELSE IF IsList(j) THEN \A n \in DOMAIN j.l : Materialized(j.l[n])
    ELSE TRUE

\* C30: for every document, one with a component schema that refers to
\* itself directly or through a chain of internal references included,
\* _resolve_schema_refs returns, and what it returns is a finite schema tree
\* in which no internal reference is left.
C30_ResolveTerminates ==
    ResolveReturned => ~call.out.exc /\ Materialized(call.out.val)

-----------------------------------------------------------------------------
(* Properties of the field report                                          *)

Inferred == call.fn = "infer"

\* word w occurs in the name l
Occurs(w, l) == \E k \in 1..(Len(l) - Len(w) + 1) : \A m \in 1..Len(w) : l[k + m - 1] = w[m]

\* the ordered rule list: tag and whether the lowercased name l matches
TypeRules(l) ==
    << [tag |-> "identifier",
        hit |-> Len(l) >= 2 /\ l[Len(l) - 1] = "i" /\ l[Len(l)] = "d"],
       [tag |-> "datetime",
        hit |-> \E w \in {W_date, W_time, W_created, W_updated, W_timestamp} : Occurs(w, l)],
       [tag |-> "name",
        hit |-> \E w \in {W_name, W_title, W_label} : Occurs(w, l)],
       [tag |-> "email", hit |-> Occurs(W_email, l)],
       [tag |-> "status",
        hit |-> \E w \in {W_status, W_state, W_active, W_enabled} : Occurs(w, l)],
       [tag |-> "numeric",
        hit |-> \E w \in {W_count, W_total, W_number, W_amount} : Occurs(w, l)] >>

\* the tag of the first rule that matches, "unknown" when none does
FirstMatch(rules) ==
    IF \A k \in DOMAIN rules : ~rules[k].hit THEN "unknown"
    ELSE rules[CHOOSE k \in DOMAIN rules :
                   rules[k].hit /\ \A j \in 1..(k - 1) : ~rules[j].hit].tag

-----------------------------------------------------------------------------
(* Properties of the pair scorer and of the field extractor                *)

Scored == call.fn = "pair"
In01(x) == FLe(Zero, x) /\ FLe(x, One)

C7_SelfPairEmpty ==
    (Scored /\ call.a.id = call.b.id) =>
        (~call.out.exc /\ DOMAIN call.out.val = {})

\* an endpoint with fields was scored against itself
C7_Witness ==
    /\ Scored
    /\ call.a = call.b
    /\ Truthy(call.a.response_schema)
    /\ call.out = Ok(<<>>)

\* every score computed for the pair (call.a, call.b)
ScoresOf(a, b) ==
    {_analyze_common_fields(a, b).val.score,
     _analyze_schema_similarity(a, b).val.score,
     _analyze_data_flow(a, b).val.score,
     _calculate_schema_compatibility(a.response_schema, b.request_schema).val,
     _calculate_schema_compatibility(b.response_schema, a.request_schema).val,
     _analyze_crud_relationship(a, b),
     _calculate_path_similarity(a.path, b.path),
     _calculate_path_similarity(_clean_path(a.path), _clean_path(b.path))}

\* C8: every computed score lies in [0,1], and a returned candidate has a
\* score above 0.
C8_ScoreBounds ==
    Scored =>
        /\ \A x \in ScoresOf(call.a, call.b) : In01(x)
        /\ \A t \in DOMAIN call.out.val :
              In01(call.out.val[t].score) /\ FGt(call.out.val[t].score, Zero)

\* a pair whose common-fields score is 0 got a data-flow candidate and no
\* other
C8_Witness ==
    /\ Scored
    /\ ~call.out.exc
    /\ call.a.id # call.b.id
    /\ _analyze_common_fields(call.a, call.b).val.score = Zero
    /\ DOMAIN call.out.val = {DATA_FLOW}

Extracted == call.fn = "extract"

\* the path of property n below a prefix
PathOf(prefix, n) == IF prefix = "" THEN n ELSE prefix \o "." \o n

\* the properties of a schema, by name; none when it has no property map
PropertiesOf(schema) ==
    IF "properties" \in DOMAIN schema.d /\ IsDict(schema.d["properties"])
      THEN schema.d["properties"].d ELSE [k \in {} |-> k]

\* the member schemas of allOf, oneOf and anyOf
MembersOf(schema) ==
    UNION {{schema.d[key].l[n] : n \in 1..Len(schema.d[key].l)} :
              key \in {k \in DOMAIN schema.d \cap {"allOf", "oneOf", "anyOf"} :
                         IsList(schema.d[k])}}

\* the field paths of a schema as the contract lists them
RECURSIVE FieldPaths(_, _)
FieldPaths(schema, prefix) ==
    IF ~IsDict(schema) THEN {}
    ELSE With(PropertiesOf(schema), LAMBDA props :
              {PathOf(prefix, n) : n \in DOMAIN props}
              \cup UNION {FieldPaths(props[n], PathOf(prefix, n)) : n \in DOMAIN props}
              \cup (IF "items" \in DOMAIN schema.d
                      THEN FieldPaths(schema.d["items"], prefix \o "[]") ELSE {})
              \cup UNION {FieldPaths(m, prefix) : m \in MembersOf(schema)})

NestedExample == JDict([properties |-> JDict([a |-> InnerB])])

\* C13: whenever _extract_fields_from_schema returns, it returns exactly the
\* path prefix.n (n alone under an empty prefix) of every property n with the
\* fields of that property's schema under that path, the fields of `items`
\* under prefix + "[]", and the fields of every allOf/oneOf/anyOf member
\* under the unchanged prefix; properties {a: {properties {b}}} yields
\* exactly {"a", "a.b"}.
C13_ExtractedPaths ==
    (Extracted /\ ~call.out.exc) =>
        /\ call.out.val = FieldPaths(call.schema, call.prefix)
        /\ (call.schema = NestedExample /\ call.prefix = "") =>
               call.out.val = {"a", "a.b"}

C13_Witness ==
    /\ Extracted
    /\ call.schema = NestedExample
    /\ call.prefix = ""
    /\ call.out = Ok({"a", "a.b"})

\* a pair of different endpoints was scored and the scorer returned
ScoredPair == Scored /\ call.a.id # call.b.id /\ ~call.out.exc

\* the names of an endpoint's parameters, over every location
ParameterNames(ps) ==
    IF ~IsDict(ps) THEN {}
    ELSE UNION {{ps.d[loc].l[n].d["name"].s : n \in 1..Len(ps.d[loc].l)} :
                   loc \in DOMAIN ps.d}

\* F(E): the fields of the request schema, of the response schema, and the
\* parameter names
F(endpoint) ==
    FieldPaths(endpoint.request_schema, "")
        \cup FieldPaths(endpoint.response_schema, "")
        \cup ParameterNames(endpoint.parameters)

\* C14: the common-fields score of a pair is |F(A) \cap F(B)| / |F(A) \cup F(B)|
\* and the candidate's common_fields is F(A) \cap F(B); when the intersection
\* is empty there is no common-fields candidate. Two endpoints whose only
\* fields are the request properties id and name score 1 with common fields
\* {id, name}.
C14_CommonFieldsJaccard ==
    ScoredPair =>
        IF F(call.a) \cap F(call.b) = {}
          THEN COMMON_FIELDS \notin DOMAIN call.out.val
          ELSE /\ COMMON_FIELDS \in DOMAIN call.out.val
               /\ call.out.val[COMMON_FIELDS].score
                    = Frac(Cardinality(F(call.a) \cap F(call.b)),
                           Cardinality(F(call.a) \cup F(call.b)))
               /\ call.out.val[COMMON_FIELDS].common_fields = F(call.a) \cap F(call.b)

C14_Witness ==
    /\ ScoredPair
    /\ call.a = PatchUser @@ [id |-> 1, service_id |-> 1]
    /\ call.b = PatchUser @@ [id |-> 2, service_id |-> 1]
    /\ call.out.val[COMMON_FIELDS].score = One
    /\ call.out.val[COMMON_FIELDS].common_fields = {"id", "name"}

\* the top-level properties of a schema, none for a value without any
TopProperties(schema) ==
    IF IsDict(schema) THEN PropertiesOf(schema) ELSE [k \in {} |-> k]

\* the flat merge of the request and response properties of an endpoint, the
\* response property standing for a name that both have
CombinedProperties(endpoint) ==
    [n \in DOMAIN TopProperties(endpoint.request_schema)
            \cup DOMAIN TopProperties(endpoint.response_schema) |->
        IF n \in DOMAIN TopProperties(endpoint.response_schema)
          THEN TopProperties(endpoint.response_schema)[n]
          ELSE TopProperties(endpoint.request_schema)[n]]

\* the fields of the combined schema
CombinedFields(endpoint) ==
    With(CombinedProperties(endpoint), LAMBDA props :
        DOMAIN props \cup UNION {FieldPaths(props[n], n) : n \in DOMAIN props})

Jaccard(A, B) ==
    IF A \cup B = {} THEN Zero ELSE Frac(Cardinality(A \cap B), Cardinality(A \cup B))

\* C15: the similar-schema score of a pair is the Jaccard index of the field
\* sets of the two combined schemas (top-level request and response
\* properties merged, the response property winning a collision; parameters
\* ignored); when either combined schema has no property the score is 0, and
\* a score of 0 gives no similar-schema candidate.
C15_SimilarSchemaJaccard ==
    ScoredPair =>
        With(IF DOMAIN CombinedProperties(call.a) = {} \/ DOMAIN CombinedProperties(call.b) = {}
               THEN Zero
               ELSE Jaccard(CombinedFields(call.a), CombinedFields(call.b)), LAMBDA expected :
            /\ _analyze_schema_similarity(call.a, call.b).val.score = expected
            /\ IF expected = Zero
                 THEN SIMILAR_SCHEMA \notin DOMAIN call.out.val
                 ELSE /\ SIMILAR_SCHEMA \in DOMAIN call.out.val
                      /\ call.out.val[SIMILAR_SCHEMA].score = expected)

\* request and response of MoveAccount both have `owner`, and the pair
\* scores 3/10: id, owner and plan out of ten fields
C15_Witness ==
    /\ ScoredPair
    /\ call.a = MoveAccount @@ [id |-> 1, service_id |-> 1]
    /\ call.b = PutAccount @@ [id |-> 2, service_id |-> 1]
    /\ CombinedFields(call.a) = {"id", "owner", "plan"}
    /\ call.out.val[SIMILAR_SCHEMA].score = Frac(3, 10)

\* compat(out, in): the share of the input's fields that the output has
Compat(out, in) ==
    IF out = JNull \/ in = JNull \/ FieldPaths(in, "") = {} THEN Zero
    ELSE Frac(Cardinality(FieldPaths(out, "") \cap FieldPaths(in, "")),
              Cardinality(FieldPaths(in, "")))

FMax(x, y) == IF FLt(x, y) THEN y ELSE x

\* the three sources of a data-flow score, by the name metadata gives them
FlowSources(A, B) ==
    [k \in {"1_to_2", "2_to_1", "crud_operations"} |->
        CASE k = "1_to_2" -> Compat(A.response_schema, B.request_schema)
          [] k = "2_to_1" -> Compat(B.response_schema, A.request_schema)
          [] OTHER -> _analyze_crud_relationship(A, B)]

\* C16: the data-flow score of a pair (A, B) is the largest of
\* compat(A.response, B.request), compat(B.response, A.request) and
\* crud(A, B); whenever it is above 0, metadata.flow_direction is one of
\* "1_to_2", "2_to_1", "crud_operations" and names a source whose value is
\* the returned score.
C16_DataFlowMax ==
    ScoredPair =>
        With(FlowSources(call.a, call.b), LAMBDA src :
        With(FMax(src["1_to_2"], FMax(src["2_to_1"], src["crud_operations"])),
             LAMBDA expected :
            /\ _analyze_data_flow(call.a, call.b).val.score = expected
            /\ IF expected = Zero
                 THEN DATA_FLOW \notin DOMAIN call.out.val
                 ELSE /\ DATA_FLOW \in DOMAIN call.out.val
                      /\ call.out.val[DATA_FLOW].score = expected
                      /\ call.out.val[DATA_FLOW].metadata.flow_direction \in DOMAIN src
                      /\ src[call.out.val[DATA_FLOW].metadata.flow_direction] = expected))

\* the response of GET /users/{id} has id, name and email, the request of
\* POST /users has id and name, and nothing flows back
C16_Witness ==
    /\ ScoredPair
    /\ call.a = GetUser @@ [id |-> 1, service_id |-> 1]
    /\ call.b = PostUser @@ [id |-> 2, service_id |-> 1]
    /\ call.out.val[DATA_FLOW].score = One
    /\ call.out.val[DATA_FLOW].metadata.flow_direction = "1_to_2"

PathScored == call.fn = "path"

\* the positions of a path that lie in a placeholder: a "{", one or more
\* characters that are no brace, and a "}"
InPlaceholder(s) ==
    {k \in 1..Len(s) :
        \E i \in 1..k, j \in k..Len(s) :
            /\ s[i] = "{" /\ s[j] = "}" /\ j >= i + 2
            /\ \A m \in (i + 1)..(j - 1) : s[m] \notin {"{", "}"}}

\* the characters of s at the positions of K, in order
RECURSIVE Keep(_, _, _)
Keep(s, K, n) ==
    IF n > Len(s) THEN <<>>
    ELSE (IF n \in K THEN <<s[n]>> ELSE <<>>) \o Keep(s, K, n + 1)

\* s without its trailing slashes
Stripped(s) ==
    SubSeq(s, 1, CHOOSE e \in 0..Len(s) :
                    /\ e = 0 \/ s[e] # "/"
                    /\ \A k \in (e + 1)..Len(s) : s[k] = "/")

\* the cleaned path: placeholders removed, trailing slash stripped, lowercased
Cleaned(path) ==
    Lower(Stripped(Keep(path, (1..Len(path)) \ InPlaceholder(path), 1)))

\* the segments of a path: its maximal runs of characters other than "/"
Runs(s) ==
    {r \in (1..Len(s)) \X (1..Len(s)) :
        /\ r[1] <= r[2]
        /\ \A k \in r[1]..r[2] : s[k] # "/"
        /\ r[1] = 1 \/ s[r[1] - 1] = "/"
        /\ r[2] = Len(s) \/ s[r[2] + 1] = "/"}
SegmentList(s) ==
    With(Runs(s), LAMBDA runs :
        [n \in 1..Cardinality(runs) |->
            With(CHOOSE r \in runs : Cardinality({q \in runs : q[1] <= r[1]}) = n,
                 LAMBDA r : SubSeq(s, r[1], r[2]))])

\* two segments match
Match(x, y) ==
    \/ x = y
    \/ x[1] = "{" /\ y[1] = "{"
    \/ /\ Len(x) > 3 /\ Len(y) > 3
       /\ \/ \E n \in 0..(Len(y) - Len(x)) : SubSeq(y, n + 1, n + Len(x)) = x
          \/ \E n \in 0..(Len(x) - Len(y)) : SubSeq(x, n + 1, n + Len(y)) = y

\* the similarity of two paths as the contract states it
Similarity(p1, p2) ==
    With(SegmentList(p1), LAMBDA a :
    With(SegmentList(p2), LAMBDA b :
        IF a = <<>> /\ b = <<>> THEN One
        ELSE IF a = <<>> \/ b = <<>> THEN Zero
        ELSE Frac(Cardinality({k \in DOMAIN a \cap DOMAIN b : Match(a[k], b[k])}),
                  IF Len(a) > Len(b) THEN Len(a) ELSE Len(b))))

\* C17: the CRUD score of a pair is 0.8 exactly when the similarity of the
\* two cleaned paths (placeholders removed, trailing slash stripped,
\* lowercased) is at least 0.7 and both methods are among GET, POST, PUT,
\* DELETE, PATCH and differ; otherwise it is 0. GET and DELETE on
\* /users/{id} score 0.8, two endpoints with the same method score 0.
C17_CrudScore ==
    PathScored =>
        /\ call.clean1 = Cleaned(call.path1)
        /\ call.clean2 = Cleaned(call.path2)
        /\ call.crud =
             (IF /\ FGe(Similarity(Cleaned(call.path1), Cleaned(call.path2)), Frac(7, 10))
                 /\ {call.method1, call.method2} \subseteq {"GET", "POST", "PUT", "DELETE", "PATCH"}
                 /\ call.method1 # call.method2
                THEN Frac(4, 5) ELSE Zero)
        /\ call.method1 = call.method2 => call.crud = Zero

C17_Witness ==
    /\ PathScored
    /\ call.path1 = PUsersId /\ call.method1 = "GET"
    /\ call.path2 = PUsersId /\ call.method2 = "DELETE"
    /\ call.crud = Frac(4, 5)

\* C18: _calculate_path_similarity splits both paths on "/" dropping empty
\* segments and returns 1 when both segment lists are empty, 0 when exactly
\* one is, and otherwise the number of positions below the shorter length
\* whose segments match over the longer length, two segments matching iff
\* they are identical, or both begin with "{", or both are longer than 3
\* characters and one is a substring of the other; the result is the same
\* for both orders of the arguments.
C18_PathSimilarity ==
    PathScored =>
        /\ call.similarity = Similarity(call.path1, call.path2)
        /\ call.similarity = call.reverse

\* /users/{id}/orders against /users/{x}: two of three positions match
C18_Witness ==
    /\ PathScored
    /\ call.path1 = PUserOrders
    /\ call.path2 = PUsersX
    /\ call.similarity = Frac(2, 3)

Reported == call.fn = "report" /\ ~call.out.exc

\* the endpoints of the corpus whose field set F holds the field
Holders(field) == {k \in DOMAIN call.endpoints : field \in F(call.endpoints[k])}
\* the names of the services of a set of endpoints
NamesOf(holders) ==
    {call.services[n].name :
        n \in {m \in DOMAIN call.services :
                  \E k \in holders : call.endpoints[k].service_id = call.services[m].id}}

\* C22: in the field report every field of some endpoint has one row; its
\* frequency is the number of endpoints whose field set holds it, counted
\* per endpoint; cross_service holds iff those endpoints lie under more than
\* one distinct service name; the full list is in non-increasing order of
\* frequency; most_common_fields is its first min(20, n) rows.
C22_FieldReport ==
    Reported =>
        With(call.out.val, LAMBDA report :
        With(report.field_analysis, LAMBDA full :
            /\ {full[n].field_name : n \in DOMAIN full}
                  = UNION {F(call.endpoints[k]) : k \in DOMAIN call.endpoints}
            /\ \A n \in DOMAIN full, m \in DOMAIN full :
                  full[n].field_name = full[m].field_name => n = m
            /\ \A n \in DOMAIN full :
                  With(Holders(full[n].field_name), LAMBDA holders :
                      /\ full[n].frequency = Cardinality(holders)
                      /\ full[n].cross_service <=> Cardinality(NamesOf(holders)) > 1)
            /\ \A n \in 1..(Len(full) - 1) : full[n].frequency >= full[n + 1].frequency
            /\ Len(report.most_common_fields) = (IF Len(full) < 20 THEN Len(full) ELSE 20)
            /\ \A n \in DOMAIN report.most_common_fields :
                  report.most_common_fields[n] = full[n]))

\* more than 20 fields, one of them under two service names and in more
\* endpoints than there are services
C22_Witness ==
    /\ Reported
    /\ Len(call.out.val.field_analysis) > 20
    /\ Len(call.out.val.most_common_fields) = 20
    /\ \E n \in DOMAIN call.out.val.field_analysis :
          /\ call.out.val.field_analysis[n].cross_service
          /\ call.out.val.field_analysis[n].frequency = 3

\* C10: field extraction returns a field set for every schema value, well
\* formed or not; it never raises.
C10_NeverRaises == Extracted => ~call.out.exc

=============================================================================
